---- MODULE Spec2Model ----
(***************************************************************************)
(* The verse store of the ideation canvas (src/app/store/canvasStore.ts,   *)
(* the Firestore-backed store that starts at line 624) and the context     *)
(* assembly of the chat window (src/unnamed/part_003, ChatWindow).         *)
(*                                                                         *)
(* Conventions                                                             *)
(*   - null, undefined and an absent id are None (0); ids are positive.    *)
(*   - uuidv4() is a generator of pairwise distinct values: the variable   *)
(*     uuid counts the ids stored so far, and the next ids are uuid + 1,   *)
(*     uuid + 2, ... in the order the code draws them.  An id that is      *)
(*     drawn and dropped (addChatMessage on a verse that is not there) is  *)
(*     not counted.                                                        *)
(*   - an optional structured field is a sequence of length 0 (absent) or  *)
(*     1 (present).                                                        *)
(*   - the empty string is "", and JS `a || b` on strings is Or(a, b).     *)
(*   - a context string is kept as the sequence of the pieces it is joined *)
(*     from: one piece per rendered message, and the separator "\n\n".     *)
(***************************************************************************)
EXTENDS Integers, Sequences, FiniteSets, TLC

VARIABLES
  verses,         \* CanvasState.verses
  activeVerseId,  \* CanvasState.activeVerseId
  selectedModel,  \* CanvasState.selectedModel
  canvasView,     \* CanvasState.canvasView (zoom in percent)
  uuid,           \* number of uuidv4() values stored so far
  now,            \* Date.now()
  removed,        \* history: [id, parentId] of every verse removeVerse took out
  steps,          \* history: number of calls counted (SpecStore: store calls;
                  \* SpecChat: submissions)
  missed,         \* history: the latest counted call named a verse not in the store
  chats,          \* ChatWindow state (useState) by chat component id
  panels,         \* Verse component state (useState) by verse id
  sync,           \* the store's Firestore fields: canvasId, userEmail, isLoading, isSaving
  docs,           \* Firestore collection 'canvases': the stored document by canvas id
  tasks,          \* the persistence calls that are suspended at their await
  held            \* history: the canvas whose verse collection is in memory

store == <<verses, activeVerseId>>
vars == <<verses, activeVerseId, selectedModel, canvasView, uuid, now,
          removed, steps, missed, chats, panels, sync, docs, tasks, held>>

others == <<panels, sync, docs, tasks, held>>

(***************************************************************************)
(* Bounds of the model.                                                    *)
(***************************************************************************)
MaxUuid == 10
MaxChats == 1
MaxTurns == 3
MaxSteps == 4
MaxNow == 3

None == 0

\* canvasId: 'default-canvas'; the canvas ids made later are uuids
DefaultCanvasId == -2

(***************************************************************************)
(* Array helpers (Array.prototype.map / filter / findIndex / find).        *)
(***************************************************************************)
Map(s, f(_)) == [i \in 1..Len(s) |-> f(s[i])]

Filter(s, p(_)) == SelectSeq(s, p)

\* findIndex: the 0-based index of the first element satisfying p, or -1.
FindIndex(s, p(_)) ==
  IF \E i \in 1..Len(s) : p(s[i])
  THEN (CHOOSE i \in 1..Len(s) : p(s[i]) /\ \A j \in 1..(i - 1) : ~p(s[j])) - 1
  ELSE -1

\* slice(0, n)
Slice0(s, n) == SubSeq(s, 1, IF n > Len(s) THEN Len(s) ELSE n)

Max2(a, b) == IF a >= b THEN a ELSE b

RECURSIVE MaxZ(_)
\* reduce((max, v) => Math.max(max, v.zIndex), 0)
MaxZ(s) == IF s = <<>> THEN 0 ELSE Max2(MaxZ(Tail(s)), Head(s).zIndex)

\* Mutant: a || b without the fallback.
Or_First(a, b) == a

Or(a, b) == IF a # "" THEN a ELSE b

HasVerse(id) == \E i \in 1..Len(verses) : verses[i].id = id

\* verses.find(v => v.id === id), for an id that HasVerse
VerseOf(id) == verses[FindIndex(verses, LAMBDA v : v.id = id) + 1]

VerseIds == {verses[i].id : i \in 1..Len(verses)}

(***************************************************************************)
(* Program constants.                                                      *)
(***************************************************************************)
DEFAULT_VERSE_SIZE == [width |-> 800, height |-> 450]
DEFAULT_CHAT_COMPONENT_SIZE == [width |-> 300, height |-> 250]
DEFAULT_BOARD_COMPONENT_SIZE == [width |-> 400, height |-> 300]
DEFAULT_SYSTEM_MAP_COMPONENT_SIZE == [width |-> 500, height |-> 400]
DEFAULT_POSTIT_COMPONENT_SIZE == [width |-> 250, height |-> 200]
DEFAULT_SYSTEM_PROMPT ==
  "You are a smart Chief Product and Technology Officer (CPTO) of a successful tech company. \n"
  \o "Provide thoughtful, strategic advice on product development, technology implementation, \n"
  \o "and technical leadership. Draw from your experience to help with technical challenges, \n"
  \o "product roadmaps, and business technology strategy. Be concise but insightful."
availableModels == <<"claude-3-opus-20240229", "claude-3-sonnet-20240229",
                     "claude-3-haiku-20240307", "gpt-4o", "gpt-4-turbo",
                     "gpt-3.5-turbo">>

\* Mutant: one text for both kinds of branch.
MessageLevelText_AsWhole ==
  "This is a branched conversation. The context from the parent conversation "
  \o "will be included in your requests."

MessageLevelText ==
  "This is a branched conversation from a specific message. The context from "
  \o "the parent conversation up to that message will be included in your requests."
WholeVerseText ==
  "This is a branched conversation. The context from the parent conversation "
  \o "will be included in your requests."

\* The data of a component is an object, or the entry is there with the value
\* undefined (NoData) or null, or the component has no data entry at all.
NoData == [kind |-> "undefined", text |-> "", color |-> ""]
NullData == [kind |-> "null", text |-> "", color |-> ""]
NoDataEntry == [kind |-> "absent", text |-> "", color |-> ""]

\* The zoom is kept in percent: DEFAULT_VERSE_SIZE.width / currentZoom.
AdjustedSize ==
  [width |-> (DEFAULT_VERSE_SIZE.width * 100) \div canvasView.zoom,
   height |-> (DEFAULT_VERSE_SIZE.height * 100) \div canvasView.zoom]

DefaultChatComponent(cid) ==
  [id |-> cid, type |-> "chat", position |-> [x |-> 20, y |-> 20],
   size |-> DEFAULT_CHAT_COMPONENT_SIZE, zIndex |-> 1, data |-> NoDataEntry]

\* id.slice(0, 4) of a uuid: the text of the id
ShortId(id) == ToString(id)

(***************************************************************************)
(* Reducers: each is the function handed to zustand's set(), from the      *)
(* current store to the fields it replaces.                                *)
(***************************************************************************)
Store(vs, active) == [verses |-> vs, activeVerseId |-> active]

\* Mutant: the new verse is not entered in the parent's branches.
WithBranch_Dropped(v, id) == v

\* Mutant: the new id is put in front and the parent's history is reset.
WithBranch_Front(v, id) ==
  [v EXCEPT !.branches = <<id>> \o v.branches, !.chatHistory = <<>>]

\* { ...v, branches: [...v.branches, newVerse.id] }
WithBranch(v, id) == [v EXCEPT !.branches = Append(v.branches, id)]

Unchanged == Store(verses, activeVerseId)

addVerse(position, parentId, modelId) ==
  LET verseId == uuid + 1
      chatComponentId == uuid + 2
      useModelId == Or(modelId, selectedModel.id)
      newVerse ==
        [id |-> verseId,
         name |-> "Verse " \o ShortId(verseId),
         position |-> position,
         size |-> AdjustedSize,
         chatHistory |-> <<>>,
         zIndex |-> MaxZ(verses) + 1,
         parentId |-> parentId,
         branchSourceMessageId |-> None,
         branches |-> <<>>,
         systemPrompt |-> DEFAULT_SYSTEM_PROMPT,
         modelId |-> Or(useModelId, availableModels[1]),
         boardCards |-> <<>>,
         systemMapData |-> <<>>,
         components |-> <<DefaultChatComponent(chatComponentId)>>]
      updatedVerses ==
        IF parentId # None
        THEN Map(verses, LAMBDA v :
               IF v.id = parentId THEN WithBranch(v, verseId) ELSE v)
        ELSE verses
  IN Store(Append(updatedVerses, newVerse), verseId)

\* const messagePreview = sourceMessage ? content.substring(0, 20) + ... : ...
MessagePreview(parentVerse, messageId) ==
  LET i == FindIndex(parentVerse.chatHistory, LAMBDA msg : msg.id = messageId)
      content == parentVerse.chatHistory[i + 1].content
  IN IF i # -1
     THEN SubSeq(content, 1, IF Len(content) > 20 THEN 20 ELSE Len(content))
          \o (IF Len(content) > 20 THEN "..." ELSE "")
     ELSE "specific message"

branchVerse(id, modelId, messageId) ==
  IF id = None THEN Unchanged
  ELSE IF ~HasVerse(id) THEN Unchanged
  ELSE
  LET parentVerse == VerseOf(id)
      branchPosition ==
        [x |-> parentVerse.position.x + parentVerse.size.width + 300,
         y |-> parentVerse.position.y + 100]
      useModelId == Or(modelId, Or(parentVerse.modelId, selectedModel.id))
      systemMessage ==
        [role |-> "system",
         content |-> IF messageId # None THEN MessageLevelText ELSE WholeVerseText,
         id |-> uuid + 1,
         timestamp |-> now]
      verseId == uuid + 2
      chatComponentId == uuid + 3
      parentLabel == Or(parentVerse.name, ShortId(parentVerse.id))
      branchName ==
        IF messageId # None
        THEN "Branch from \"" \o MessagePreview(parentVerse, messageId)
             \o "\" (" \o parentLabel \o ")"
        ELSE "Branch " \o ShortId(verseId) \o " (from " \o parentLabel \o ")"
      newVerse ==
        [id |-> verseId,
         name |-> branchName,
         position |-> branchPosition,
         size |-> AdjustedSize,
         chatHistory |-> <<systemMessage>>,
         zIndex |-> MaxZ(verses) + 1,
         parentId |-> parentVerse.id,
         branchSourceMessageId |-> messageId,
         branches |-> <<>>,
         systemPrompt |-> parentVerse.systemPrompt,
         modelId |-> useModelId,
         boardCards |-> <<>>,
         systemMapData |-> <<>>,
         components |-> <<DefaultChatComponent(chatComponentId)>>]
      updatedVerses ==
        Map(verses, LAMBDA v : IF v.id = id THEN WithBranch(v, verseId) ELSE v)
  IN Store(Append(updatedVerses, newVerse), verseId)

\* Mutant: the parent keeps the id of the removed verse.
WithoutBranch_Kept(v, id) == v

\* { ...v, branches: v.branches.filter(branchId => branchId !== id) }
WithoutBranch(v, id) ==
  [v EXCEPT !.branches = Filter(v.branches, LAMBDA branchId : branchId # id)]

\* Mutant: the filter drops the parent of the verse instead of the verse.
WithoutVerse_DropsParent(vs, id) ==
  LET parentId == vs[FindIndex(vs, LAMBDA v : v.id = id) + 1].parentId
  IN IF parentId = None
     THEN Filter(vs, LAMBDA v : v.id # id)
     ELSE Filter(vs, LAMBDA v : v.id # parentId)

\* Mutant: the filter keeps every verse.
WithoutVerse_Kept(vs, id) == vs

\* updatedVerses.filter(v => v.id !== id)
WithoutVerse(vs, id) == Filter(vs, LAMBDA v : v.id # id)

\* Mutant: the removed verse stays the active one.
removeVerse_KeepsActive(id) ==
  IF ~HasVerse(id) THEN Unchanged
  ELSE
  LET verseToRemove == VerseOf(id)
      updatedVerses ==
        Map(verses, LAMBDA v :
          IF v.id = verseToRemove.parentId THEN WithoutBranch(v, id) ELSE v)
  IN Store(WithoutVerse(updatedVerses, id), activeVerseId)

removeVerse(id) ==
  IF ~HasVerse(id) THEN Unchanged
  ELSE
  LET verseToRemove == VerseOf(id)
      updatedVerses ==
        Map(verses, LAMBDA v :
          IF v.id = verseToRemove.parentId THEN WithoutBranch(v, id) ELSE v)
  IN Store(WithoutVerse(updatedVerses, id),
           IF activeVerseId = id THEN None ELSE activeVerseId)

\* Mutant: the new message is put in front of the history.
addChatMessage_Front(verseId, message) ==
  LET messageWithMeta ==
        [role |-> message.role, content |-> message.content,
         id |-> uuid + 1, timestamp |-> now]
  IN Store([i \in 1..Len(verses) |->
              IF verses[i].id = verseId
              THEN [verses[i] EXCEPT !.chatHistory = <<messageWithMeta>> \o @]
              ELSE verses[i]],
           activeVerseId)

addChatMessage(verseId, message) ==
  LET messageWithMeta ==
        [role |-> message.role, content |-> message.content,
         id |-> uuid + 1, timestamp |-> now]
  IN Store(Map(verses, LAMBDA verse :
             IF verse.id = verseId
             THEN [verse EXCEPT !.chatHistory = Append(verse.chatHistory, messageWithMeta)]
             ELSE verse),
           activeVerseId)

\* verses.map(verse => verse.id === id ? f(verse) : verse), other fields kept
OnVerse(id, f(_)) ==
  Store(Map(verses, LAMBDA verse : IF verse.id = id THEN f(verse) ELSE verse),
        activeVerseId)

\* The reducer returns the new selectedModel; verses and activeVerseId stay.
setSelectedModel(model) == model

setActiveVerse(id) ==
  IF id = activeVerseId THEN Store(verses, id)
  ELSE
  LET maxZIndex == MaxZ(verses)
  IN Store(Map(verses, LAMBDA verse :
             IF verse.id = id THEN [verse EXCEPT !.zIndex = maxZIndex + 1] ELSE verse),
           id)

updateVersePosition(id, position) ==
  OnVerse(id, LAMBDA verse : [verse EXCEPT !.position = position])

\* Mutant: the branches of the verse share its prompt.
updateSystemPrompt_Shared(verseId, systemPrompt) ==
  Store([i \in 1..Len(verses) |->
           IF verses[i].id = verseId \/ verses[i].parentId = verseId
           THEN [verses[i] EXCEPT !.systemPrompt = systemPrompt]
           ELSE verses[i]],
        activeVerseId)

updateSystemPrompt(verseId, systemPrompt) ==
  OnVerse(verseId, LAMBDA verse : [verse EXCEPT !.systemPrompt = systemPrompt])

updateBoardCards(verseId, cards) ==
  OnVerse(verseId, LAMBDA verse : [verse EXCEPT !.boardCards = <<cards>>])

updateCardColumn(verseId, cardId, newColumn) ==
  IF ~HasVerse(verseId) THEN Unchanged
  ELSE IF VerseOf(verseId).boardCards = <<>> THEN Unchanged
  ELSE
  LET updatedCards ==
        Map(VerseOf(verseId).boardCards[1], LAMBDA card :
          IF card.id = cardId THEN [card EXCEPT !.column = newColumn] ELSE card)
  IN OnVerse(verseId, LAMBDA v : [v EXCEPT !.boardCards = <<updatedCards>>])

\* opt || []
OrEmpty(opt) == IF opt = <<>> THEN <<>> ELSE opt[1]

updateSystemMapData(verseId, data) ==
  LET typedData == [nodes |-> OrEmpty(data.nodes), edges |-> OrEmpty(data.edges)]
  IN OnVerse(verseId, LAMBDA verse : [verse EXCEPT !.systemMapData = <<typedData>>])

updateSystemMapNode(verseId, nodeId, x, y) ==
  IF ~HasVerse(verseId) THEN Unchanged
  ELSE IF VerseOf(verseId).systemMapData = <<>> THEN Unchanged
  ELSE
  LET updatedNodes ==
        Map(VerseOf(verseId).systemMapData[1].nodes, LAMBDA node :
          IF node.id = nodeId THEN [node EXCEPT !.x = x, !.y = y] ELSE node)
  IN OnVerse(verseId, LAMBDA v :
       [v EXCEPT !.systemMapData =
          <<[nodes |-> updatedNodes, edges |-> v.systemMapData[1].edges]>>])

updateSystemMapNodeLabel(verseId, nodeId, label) ==
  IF ~HasVerse(verseId) THEN Unchanged
  ELSE IF VerseOf(verseId).systemMapData = <<>> THEN Unchanged
  ELSE
  LET updatedNodes ==
        Map(VerseOf(verseId).systemMapData[1].nodes, LAMBDA node :
          IF node.id = nodeId THEN [node EXCEPT !.label = label] ELSE node)
  IN OnVerse(verseId, LAMBDA v :
       [v EXCEPT !.systemMapData =
          <<[nodes |-> updatedNodes, edges |-> v.systemMapData[1].edges]>>])

updateSystemMapEdgeLabel(verseId, edgeId, label) ==
  IF ~HasVerse(verseId) THEN Unchanged
  ELSE IF VerseOf(verseId).systemMapData = <<>> THEN Unchanged
  ELSE
  LET updatedEdges ==
        Map(VerseOf(verseId).systemMapData[1].edges, LAMBDA edge :
          IF edge.id = edgeId THEN [edge EXCEPT !.label = label] ELSE edge)
  IN OnVerse(verseId, LAMBDA v :
       [v EXCEPT !.systemMapData =
          <<[nodes |-> v.systemMapData[1].nodes, edges |-> updatedEdges]>>])

updateVerseSize(id, size) ==
  OnVerse(id, LAMBDA verse : [verse EXCEPT !.size = size])

\* Mutant: the name goes to every verse.
updateVerseName_All(id, name) ==
  Store([i \in 1..Len(verses) |-> [verses[i] EXCEPT !.name = name]], activeVerseId)

updateVerseName(id, name) ==
  OnVerse(id, LAMBDA verse : [verse EXCEPT !.name = name])

updateVerseModel(id, modelId) ==
  OnVerse(id, LAMBDA verse : [verse EXCEPT !.modelId = modelId])

ComponentSize(type) ==
  CASE type = "chat" -> DEFAULT_CHAT_COMPONENT_SIZE
    [] type = "board" -> DEFAULT_BOARD_COMPONENT_SIZE
    [] type = "systemMap" -> DEFAULT_SYSTEM_MAP_COMPONENT_SIZE
    [] type = "postIt" -> DEFAULT_POSTIT_COMPONENT_SIZE
    [] OTHER -> DEFAULT_CHAT_COMPONENT_SIZE

\* position and initialData are optional: <<>> when not given
addComponent(verseId, type, position, initialData) ==
  IF ~HasVerse(verseId) THEN Unchanged
  ELSE
  LET verse == VerseOf(verseId)
      maxZIndex == MaxZ(verse.components)
      defaultPosition ==
        IF type = "postIt"
        THEN [x |-> 50, y |-> 50]
        ELSE [x |-> verse.size.width \div 4, y |-> verse.size.height \div 4]
      newComponent ==
        [id |-> uuid + 1,
         type |-> type,
         position |-> IF position # <<>> THEN position[1] ELSE defaultPosition,
         size |-> ComponentSize(type),
         zIndex |-> maxZIndex + 1,
         data |-> IF initialData # <<>> THEN initialData[1]
                  ELSE IF type = "postIt"
                       THEN [kind |-> "object", text |-> "", color |-> "#FFFF88"]
                       ELSE NoData]
  IN OnVerse(verseId, LAMBDA v : [v EXCEPT !.components = Append(v.components, newComponent)])

\* Mutant: the component is removed before the verse is looked up.
removeComponent_Unguarded(verseId, componentId) ==
  Store(Map(verses, LAMBDA v :
          [v EXCEPT !.components = Filter(v.components, LAMBDA comp : comp.id # componentId)]),
        activeVerseId)

\* Mutant: the last component of a verse is removed like any other.
removeComponent_LastToo(verseId, componentId) ==
  IF ~HasVerse(verseId) THEN Unchanged
  ELSE Store(Map(verses, LAMBDA v :
               IF v.id = verseId
               THEN [v EXCEPT !.components =
                       Filter(v.components, LAMBDA comp : comp.id # componentId)]
               ELSE v),
             activeVerseId)

removeComponent(verseId, componentId) ==
  IF ~HasVerse(verseId) THEN Unchanged
  ELSE IF Len(VerseOf(verseId).components) <= 1 THEN Unchanged
  ELSE OnVerse(verseId, LAMBDA v :
         [v EXCEPT !.components = Filter(v.components, LAMBDA comp : comp.id # componentId)])

OnComponent(verseId, componentId, f(_)) ==
  OnVerse(verseId, LAMBDA v :
    [v EXCEPT !.components =
       Map(v.components, LAMBDA comp : IF comp.id = componentId THEN f(comp) ELSE comp)])

updateComponentPosition(verseId, componentId, position) ==
  OnComponent(verseId, componentId, LAMBDA comp : [comp EXCEPT !.position = position])

updateComponentSize(verseId, componentId, size) ==
  OnComponent(verseId, componentId, LAMBDA comp : [comp EXCEPT !.size = size])

\* Mutant: the component is raised to the maximum, not above it.
setActiveComponent_ToMax(verseId, componentId) ==
  IF ~HasVerse(verseId) THEN Unchanged
  ELSE
  LET maxZIndex == MaxZ(VerseOf(verseId).components)
  IN Store([i \in 1..Len(verses) |->
              IF verses[i].id = verseId
              THEN [verses[i] EXCEPT !.components =
                      [k \in 1..Len(verses[i].components) |->
                         IF verses[i].components[k].id = componentId
                         THEN [verses[i].components[k] EXCEPT !.zIndex = maxZIndex]
                         ELSE verses[i].components[k]]]
              ELSE verses[i]],
           activeVerseId)

setActiveComponent(verseId, componentId) ==
  IF ~HasVerse(verseId) THEN Unchanged
  ELSE
  LET maxZIndex == MaxZ(VerseOf(verseId).components)
  IN OnComponent(verseId, componentId, LAMBDA comp : [comp EXCEPT !.zIndex = maxZIndex + 1])

\* { ...comp.data, text }: a post-it's data with one entry replaced
PostItData(data) == [kind |-> "object", text |-> data.text, color |-> data.color]

updatePostItText(verseId, componentId, text) ==
  OnVerse(verseId, LAMBDA v :
    [v EXCEPT !.components =
       Map(v.components, LAMBDA comp :
         IF comp.id = componentId /\ comp.type = "postIt"
         THEN [comp EXCEPT !.data = [PostItData(comp.data) EXCEPT !.text = text]]
         ELSE comp)])

updatePostItColor(verseId, componentId, color) ==
  OnVerse(verseId, LAMBDA v :
    [v EXCEPT !.components =
       Map(v.components, LAMBDA comp :
         IF comp.id = componentId /\ comp.type = "postIt"
         THEN [comp EXCEPT !.data = [PostItData(comp.data) EXCEPT !.color = color]]
         ELSE comp)])

addDefaultPostIt(verseId) ==
  IF ~HasVerse(verseId) THEN Unchanged
  ELSE
  LET newPostIt ==
        [id |-> uuid + 1,
         type |-> "postIt",
         position |-> [x |-> 100, y |-> 150],
         size |-> DEFAULT_POSTIT_COMPONENT_SIZE,
         zIndex |-> 1000,
         data |-> [kind |-> "object", text |-> "", color |-> "#FFFF88"]]
  IN OnVerse(verseId, LAMBDA v : [v EXCEPT !.components = Append(v.components, newPostIt)])

(***************************************************************************)
(* Context assembly (ChatWindow.handleSubmit).                             *)
(***************************************************************************)
Separator == [role |-> "", content |-> "\n\n"]

\* `${msg.role}: ${msg.content}`: one piece of the context string
Render(msg) == [role |-> msg.role, content |-> msg.content]

RECURSIVE Join(_)
\* pieces.join('\n\n')
Join(pieces) ==
  IF Len(pieces) <= 1 THEN pieces
  ELSE <<Head(pieces), Separator>> \o Join(Tail(pieces))

NonSystem(history) == Filter(history, LAMBDA msg : msg.role # "system")

\* Mutant: the branch point is ignored, the whole history is taken.
FilteredHistory_NoCut(verse, parent) == NonSystem(parent.chatHistory)

\* Mutant: the system messages are not filtered out of the cut history.
FilteredHistory_NoFilter(verse, parent) ==
  LET messageIndex ==
        FindIndex(parent.chatHistory, LAMBDA msg : msg.id = verse.branchSourceMessageId)
  IN IF verse.branchSourceMessageId # None /\ parent.id = verse.parentId
        /\ messageIndex # -1
     THEN Slice0(parent.chatHistory, messageIndex + 1)
     ELSE NonSystem(parent.chatHistory)

\* Mutant: a branch point that is not found cuts at index -1.
FilteredHistory_CutsAtMissing(verse, parent) ==
  LET messageIndex ==
        FindIndex(parent.chatHistory, LAMBDA msg : msg.id = verse.branchSourceMessageId)
  IN IF verse.branchSourceMessageId # None /\ parent.id = verse.parentId
     THEN NonSystem(Slice0(parent.chatHistory, messageIndex + 1))
     ELSE NonSystem(parent.chatHistory)

\* The part of an ancestor's history that goes into the context of verse:
\* cut at the branch point when parent is the direct parent of a
\* message-level branch and the message is still there.
FilteredHistory(verse, parent) ==
  LET messageIndex ==
        FindIndex(parent.chatHistory, LAMBDA msg : msg.id = verse.branchSourceMessageId)
  IN IF verse.branchSourceMessageId # None /\ parent.id = verse.parentId
        /\ messageIndex # -1
     THEN NonSystem(Slice0(parent.chatHistory, messageIndex + 1))
     ELSE NonSystem(parent.chatHistory)

RECURSIVE getParentChain(_, _)
\* verse: the verse of the chat window; verseId: the ancestor being resolved.
getParentChain(verse, verseId) ==
  IF ~HasVerse(verseId) THEN <<>>
  ELSE
  LET parent == VerseOf(verseId)
      parentContext == Join(Map(FilteredHistory(verse, parent), Render))
  IN IF parent.parentId # None
     THEN LET grandparentContext == getParentChain(verse, parent.parentId)
          IN IF grandparentContext # <<>>
             THEN grandparentContext \o <<Separator>> \o parentContext
             ELSE parentContext
     ELSE parentContext

\* Mutant: the chain of a verse without a parent starts at the verse itself.
assembleContext_FromSelf(verseId) ==
  IF ~HasVerse(verseId) THEN <<>>
  ELSE
  LET verse == VerseOf(verseId)
  IN getParentChain(verse, IF verse.parentId # None THEN verse.parentId ELSE verse.id)

\* Mutant: the context is dropped when the parent's own parent is missing.
assembleContext_NeedsGrandparent(verseId) ==
  IF ~HasVerse(verseId) THEN <<>>
  ELSE
  LET verse == VerseOf(verseId)
      hasParentVerse == verse.parentId # None /\ HasVerse(verse.parentId)
  IN IF hasParentVerse
        /\ (VerseOf(verse.parentId).parentId = None
              \/ HasVerse(VerseOf(verse.parentId).parentId))
     THEN getParentChain(verse, verse.parentId)
     ELSE <<>>

\* The context handleSubmit sends for the chat window of verseId.
assembleContext(verseId) ==
  IF ~HasVerse(verseId) THEN <<>>
  ELSE
  LET verse == VerseOf(verseId)
      hasParentVerse == verse.parentId # None /\ HasVerse(verse.parentId)
  IN IF hasParentVerse THEN getParentChain(verse, verse.parentId) ELSE <<>>

\* The messages a context string holds, in order.
ContextMessages(context) == Filter(context, LAMBDA piece : piece # Separator)


(***************************************************************************)
(* Inputs.                                                                 *)
(***************************************************************************)
Positions == {[x |-> 0, y |-> 0]}
MessageInputs ==
  {[role |-> "user", content |-> "hi"],
   [role |-> "assistant", content |-> "hello"],
   [role |-> "system", content |-> "note"]}

\* An id that is in no store: one the generator never returned.
StrayIds == {-1}
RemovedIds == {r.id : r \in removed}

VerseIdInputs == VerseIds \cup StrayIds

MessageIdsOf(id) ==
  IF HasVerse(id)
  THEN {VerseOf(id).chatHistory[i].id : i \in 1..Len(VerseOf(id).chatHistory)}
  ELSE {}

MessageIdInputs(id) == {None} \cup StrayIds \cup MessageIdsOf(id)

\* Ids a caller may still hold: verses of the store, removed ones, a stray one.
AddressedIds == VerseIds \cup RemovedIds \cup StrayIds

ComponentIdsOf(id) ==
  IF HasVerse(id)
  THEN {VerseOf(id).components[i].id : i \in 1..Len(VerseOf(id).components)}
  ELSE {}

ComponentIdInputs(id) == StrayIds \cup ComponentIdsOf(id)

MovedPosition == [x |-> 40, y |-> 60]
ResizedSize == [width |-> 400, height |-> 200]
NameInput == "Renamed"
PromptInput == "Be brief."
CardInputs == <<[id |-> "card-1", content |-> "idea", column |-> "elaborate"]>>
CardIdInputs == {"card-1"}
ColumnInput == "problems"
NodeInputs == <<[id |-> "node-1", label |-> "API", x |-> 0, y |-> 0, type |-> "service"]>>
EdgeInputs ==
  <<[id |-> "edge-1", source |-> "node-1", target |-> "node-1", label |-> ""]>>
MapDataInputs ==
  {[nodes |-> <<NodeInputs>>, edges |-> <<>>]}
NodeIdInputs == {"node-1"}
EdgeIdInputs == {"edge-1"}
LabelInput == "Gateway"
ComponentTypes == {"postIt"}
ModelIdInputs == {"", availableModels[2]}
PostItTextInput == "todo"
PostItColorInput == "#88FF88"

(***************************************************************************)
(* Actions: one store call each.                                           *)
(***************************************************************************)
Apply(result) ==
  /\ verses' = result.verses
  /\ activeVerseId' = result.activeVerseId

AddVerse(position, parentId, modelId) ==
  /\ uuid + 2 <= MaxUuid
  /\ Apply(addVerse(position, parentId, modelId))
  /\ uuid' = uuid + 2
  /\ UNCHANGED <<selectedModel, canvasView, now, removed>>

BranchVerse(id, modelId, messageId) ==
  /\ uuid + 3 <= MaxUuid
  /\ Apply(branchVerse(id, modelId, messageId))
  /\ uuid' = IF id # None /\ HasVerse(id) THEN uuid + 3 ELSE uuid
  /\ UNCHANGED <<selectedModel, canvasView, now, removed>>

RemoveVerse(id) ==
  /\ Apply(removeVerse(id))
  /\ removed' = IF HasVerse(id)
                THEN removed \cup {[id |-> id, parentId |-> VerseOf(id).parentId]}
                ELSE removed
  /\ UNCHANGED <<selectedModel, canvasView, uuid, now>>

AddChatMessage(verseId, message) ==
  /\ uuid + 1 <= MaxUuid
  /\ Apply(addChatMessage(verseId, message))
  /\ uuid' = IF HasVerse(verseId) THEN uuid + 1 ELSE uuid
  /\ UNCHANGED <<selectedModel, canvasView, now, removed>>

Keep == UNCHANGED <<selectedModel, canvasView, uuid, now, removed>>

SetActiveVerse(id) == Apply(setActiveVerse(id)) /\ Keep

SetSelectedModel(model) ==
  /\ selectedModel' = setSelectedModel(model)
  /\ UNCHANGED <<verses, activeVerseId, canvasView, uuid, now, removed>>

UpdateVersePosition(id, position) == Apply(updateVersePosition(id, position)) /\ Keep

UpdateSystemPrompt(verseId, systemPrompt) ==
  Apply(updateSystemPrompt(verseId, systemPrompt)) /\ Keep

UpdateBoardCards(verseId, cards) == Apply(updateBoardCards(verseId, cards)) /\ Keep

UpdateCardColumn(verseId, cardId, newColumn) ==
  Apply(updateCardColumn(verseId, cardId, newColumn)) /\ Keep

UpdateSystemMapData(verseId, data) == Apply(updateSystemMapData(verseId, data)) /\ Keep

UpdateSystemMapNode(verseId, nodeId, x, y) ==
  Apply(updateSystemMapNode(verseId, nodeId, x, y)) /\ Keep

UpdateSystemMapNodeLabel(verseId, nodeId, label) ==
  Apply(updateSystemMapNodeLabel(verseId, nodeId, label)) /\ Keep

UpdateSystemMapEdgeLabel(verseId, edgeId, label) ==
  Apply(updateSystemMapEdgeLabel(verseId, edgeId, label)) /\ Keep

UpdateVerseSize(id, size) == Apply(updateVerseSize(id, size)) /\ Keep

UpdateVerseName(id, name) == Apply(updateVerseName(id, name)) /\ Keep

UpdateVerseModel(id, modelId) == Apply(updateVerseModel(id, modelId)) /\ Keep

AddComponent(verseId, type, position, initialData) ==
  /\ uuid + 1 <= MaxUuid
  /\ Apply(addComponent(verseId, type, position, initialData))
  /\ uuid' = IF HasVerse(verseId) THEN uuid + 1 ELSE uuid
  /\ UNCHANGED <<selectedModel, canvasView, now, removed>>

RemoveComponent(verseId, componentId) ==
  Apply(removeComponent(verseId, componentId)) /\ Keep

UpdateComponentPosition(verseId, componentId, position) ==
  Apply(updateComponentPosition(verseId, componentId, position)) /\ Keep

UpdateComponentSize(verseId, componentId, size) ==
  Apply(updateComponentSize(verseId, componentId, size)) /\ Keep

SetActiveComponent(verseId, componentId) ==
  Apply(setActiveComponent(verseId, componentId)) /\ Keep

UpdatePostItText(verseId, componentId, text) ==
  Apply(updatePostItText(verseId, componentId, text)) /\ Keep

UpdatePostItColor(verseId, componentId, color) ==
  Apply(updatePostItColor(verseId, componentId, color)) /\ Keep

AddDefaultPostIt(verseId) ==
  /\ uuid + 1 <= MaxUuid
  /\ Apply(addDefaultPostIt(verseId))
  /\ uuid' = IF HasVerse(verseId) THEN uuid + 1 ELSE uuid
  /\ UNCHANGED <<selectedModel, canvasView, now, removed>>

Init ==
  /\ verses = <<>>
  /\ activeVerseId = None
  /\ selectedModel = [id |-> availableModels[1]]
  /\ canvasView = [zoom |-> 20]
  /\ uuid = 0
  /\ now = 0
  /\ removed = {}
  /\ steps = 0
  /\ missed = FALSE
  /\ chats = <<>>
  /\ panels = <<>>
  /\ sync = [canvasId |-> DefaultCanvasId, userEmail |-> "",
             isLoading |-> FALSE, isSaving |-> FALSE]
  /\ docs = <<>>
  /\ tasks = {}
  /\ held = DefaultCanvasId

Uncounted == UNCHANGED <<steps, missed, chats, others>>

(***************************************************************************)
(* SpecTree: addVerse with any parentId, branchVerse, removeVerse.         *)
(***************************************************************************)
NextTree ==
  \/ \E p \in Positions, parentId \in {None} \cup VerseIdInputs :
       AddVerse(p, parentId, "") /\ Uncounted
  \/ \E id \in {None} \cup VerseIdInputs :
       \E messageId \in MessageIdInputs(id) :
         BranchVerse(id, "", messageId) /\ Uncounted
  \/ \E id \in VerseIdInputs : RemoveVerse(id) /\ Uncounted

SpecTree == Init /\ [][NextTree]_vars

\* handleSubmit appends the user message and later the assistant's reply;
\* the inputs are kept to that order: an assistant message is taken only by
\* a verse whose history ends with a user message.
IsReply(message) == message.role = "assistant"

AwaitsReply(id) ==
  /\ HasVerse(id)
  /\ VerseOf(id).chatHistory # <<>>
  /\ VerseOf(id).chatHistory[Len(VerseOf(id).chatHistory)].role = "user"

(***************************************************************************)
(* Spec: addVerse of roots, branchVerse, removeVerse, addChatMessage.      *)
(***************************************************************************)
Next ==
  \/ \E p \in Positions : AddVerse(p, None, "") /\ Uncounted
  \/ \E id \in {None} \cup VerseIdInputs :
       \E messageId \in MessageIdInputs(id) :
         BranchVerse(id, "", messageId) /\ Uncounted
  \/ \E id \in VerseIdInputs : RemoveVerse(id) /\ Uncounted
  \/ \E id \in VerseIdInputs, message \in MessageInputs :
       /\ IsReply(message) => AwaitsReply(id)
       /\ AddChatMessage(id, message) /\ Uncounted

Spec == Init /\ [][Next]_vars

(***************************************************************************)
(* SpecStore: every store call that names a verse, MaxSteps calls in all.  *)
(* missed records whether the last call named a verse that is not in the   *)
(* store.                                                                  *)
(***************************************************************************)
Addressed(id) ==
  /\ steps < MaxSteps
  /\ steps' = steps + 1
  /\ missed' = ~HasVerse(id)
  /\ UNCHANGED <<chats, others>>

Unaddressed ==
  /\ steps < MaxSteps
  /\ steps' = steps + 1
  /\ missed' = FALSE
  /\ UNCHANGED <<chats, others>>

NextStore ==
  \/ \E p \in Positions : AddVerse(p, None, "") /\ Unaddressed
  \/ \E id \in {None} \cup VerseIdInputs : SetActiveVerse(id) /\ Unaddressed
  \/ \E id \in {None} \cup AddressedIds :
       \E modelId \in {""}, messageId \in MessageIdInputs(id) :
         BranchVerse(id, modelId, messageId) /\ Addressed(id)
  \/ \E id \in AddressedIds : RemoveVerse(id) /\ Addressed(id)
  \/ \E id \in AddressedIds :
       AddChatMessage(id, [role |-> "user", content |-> "hi"]) /\ Addressed(id)
  \/ \E id \in AddressedIds : UpdateVersePosition(id, MovedPosition) /\ Addressed(id)
  \/ \E id \in AddressedIds : UpdateVerseSize(id, ResizedSize) /\ Addressed(id)
  \/ \E id \in AddressedIds : UpdateVerseName(id, NameInput) /\ Addressed(id)
  \/ \E id \in AddressedIds : UpdateVerseModel(id, availableModels[2]) /\ Addressed(id)
  \/ \E id \in AddressedIds : UpdateSystemPrompt(id, PromptInput) /\ Addressed(id)
  \/ \E id \in AddressedIds : UpdateBoardCards(id, CardInputs) /\ Addressed(id)
  \/ \E id \in AddressedIds, cardId \in CardIdInputs :
       UpdateCardColumn(id, cardId, ColumnInput) /\ Addressed(id)
  \/ \E id \in AddressedIds, data \in MapDataInputs :
       UpdateSystemMapData(id, data) /\ Addressed(id)
  \/ \E id \in AddressedIds, nodeId \in NodeIdInputs :
       UpdateSystemMapNode(id, nodeId, MovedPosition.x, MovedPosition.y) /\ Addressed(id)
  \/ \E id \in AddressedIds, nodeId \in NodeIdInputs :
       UpdateSystemMapNodeLabel(id, nodeId, LabelInput) /\ Addressed(id)
  \/ \E id \in AddressedIds, edgeId \in EdgeIdInputs :
       UpdateSystemMapEdgeLabel(id, edgeId, LabelInput) /\ Addressed(id)
  \/ \E id \in AddressedIds, type \in ComponentTypes :
       AddComponent(id, type, <<>>, <<>>) /\ Addressed(id)
  \/ \E id \in AddressedIds :
       \E componentId \in ComponentIdInputs(id) :
         RemoveComponent(id, componentId) /\ Addressed(id)
  \/ \E id \in AddressedIds :
       \E componentId \in ComponentIdInputs(id) :
         UpdateComponentPosition(id, componentId, MovedPosition) /\ Addressed(id)
  \/ \E id \in AddressedIds :
       \E componentId \in ComponentIdInputs(id) :
         UpdateComponentSize(id, componentId, ResizedSize) /\ Addressed(id)
  \/ \E id \in AddressedIds :
       \E componentId \in ComponentIdInputs(id) :
         SetActiveComponent(id, componentId) /\ Addressed(id)
  \/ \E id \in AddressedIds :
       \E componentId \in ComponentIdInputs(id) :
         UpdatePostItText(id, componentId, PostItTextInput) /\ Addressed(id)
  \/ \E id \in AddressedIds :
       \E componentId \in ComponentIdInputs(id) :
         UpdatePostItColor(id, componentId, PostItColorInput) /\ Addressed(id)
  \/ \E id \in AddressedIds : AddDefaultPostIt(id) /\ Addressed(id)

SpecStore == Init /\ [][NextStore]_vars

(***************************************************************************)
(* SpecEdit: the calls that create, remove and edit verses of the          *)
(* collection, MaxSteps calls in all.                                      *)
(***************************************************************************)
NextEdit ==
  \/ \E p \in Positions : AddVerse(p, None, "") /\ Unaddressed
  \/ \E id \in VerseIds :
       \E messageId \in MessageIdInputs(id) :
         BranchVerse(id, "", messageId) /\ Addressed(id)
  \/ \E id \in VerseIds : RemoveVerse(id) /\ Addressed(id)
  \/ \E id \in VerseIds :
       AddChatMessage(id, [role |-> "user", content |-> "hi"]) /\ Addressed(id)
  \/ \E id \in VerseIds : UpdateVersePosition(id, MovedPosition) /\ Addressed(id)
  \/ \E id \in VerseIds : UpdateVerseSize(id, ResizedSize) /\ Addressed(id)
  \/ \E id \in VerseIds : UpdateVerseName(id, NameInput) /\ Addressed(id)
  \/ \E id \in VerseIds : UpdateVerseModel(id, availableModels[2]) /\ Addressed(id)
  \/ \E id \in VerseIds : UpdateSystemPrompt(id, PromptInput) /\ Addressed(id)
  \/ \E id \in VerseIds, type \in ComponentTypes :
       AddComponent(id, type, <<>>, <<>>) /\ Addressed(id)
  \/ \E id \in VerseIds :
       \E componentId \in ComponentIdsOf(id) :
         SetActiveComponent(id, componentId) /\ Addressed(id)

SpecEdit == Init /\ [][NextEdit]_vars

(***************************************************************************)
(* SpecModel: the calls that set or read a model id, MaxSteps calls in all.*)
(***************************************************************************)
SelectableModels == {[id |-> availableModels[1]], [id |-> availableModels[3]]}
GivenModelIds == {"", availableModels[2]}

NextModel ==
  \/ \E model \in SelectableModels : SetSelectedModel(model) /\ Unaddressed
  \/ \E p \in Positions, modelId \in GivenModelIds :
       AddVerse(p, None, modelId) /\ Unaddressed
  \/ \E id \in VerseIds, modelId \in GivenModelIds :
       BranchVerse(id, modelId, None) /\ Addressed(id)
  \/ \E id \in VerseIds, modelId \in GivenModelIds :
       UpdateVerseModel(id, modelId) /\ Addressed(id)

SpecModel == Init /\ [][NextModel]_vars

(***************************************************************************)
(* SpecClock: root verses that take messages while the clock Date.now()    *)
(* reads goes on in milliseconds; two calls may fall in one millisecond.   *)
(***************************************************************************)
Tick ==
  /\ now < MaxNow
  /\ now' = now + 1
  /\ UNCHANGED <<verses, activeVerseId, selectedModel, canvasView, uuid, removed>>

NextClock ==
  \/ Tick /\ Uncounted
  \/ \E p \in Positions : AddVerse(p, None, "") /\ Uncounted
  \/ \E id \in VerseIds :
       AddChatMessage(id, [role |-> "user", content |-> "hi"]) /\ Uncounted

SpecClock == Init /\ [][NextClock]_vars

(***************************************************************************)
(* ChatWindow: one window for each chat component of a verse in the store. *)
(* handleSubmit is an async function: it runs up to an await in one step,  *)
(* and other calls interleave while the awaited promise is pending.        *)
(*   phase "idle"         no submission is running                         *)
(*   phase "fetching"     await fetch(apiEndpoint, ...)                    *)
(*   phase "readingError" !response.ok, await response.json()              *)
(*   phase "readingReply" response.ok, await response.json()               *)
(*   phase "thrown"       an exception is on its way to the catch block    *)
(* status is response.status, a local of the running submission.           *)
(* userMessageId and outcome are history: the id the store gave the user   *)
(* message of the latest submission, and how that submission ended.        *)
(***************************************************************************)
InitialChat ==
  [verseId |-> None, isLoading |-> FALSE, apiError |-> <<>>, phase |-> "idle",
   status |-> None, userMessageId |-> None, outcome |-> "none"]

ChatOf(c) == IF c \in DOMAIN chats THEN chats[c] ELSE InitialChat

SetChat(c, chat) ==
  chats' = [x \in DOMAIN chats \cup {c} |-> IF x = c THEN chat ELSE chats[x]]

\* The chat components of a verse: VerseComponent renders a ChatWindow for each.
ChatWindowsOf(id) ==
  IF HasVerse(id)
  THEN {VerseOf(id).components[i].id :
          i \in {j \in 1..Len(VerseOf(id).components) :
                   VerseOf(id).components[j].type = "chat"}}
  ELSE {}

\* inputValue.trim(), for the texts the input field takes here
InputValues == {" hi ", "  "}

Trim(inputValue) ==
  CASE inputValue = " hi " -> "hi"
    [] inputValue = "  " -> ""
    [] OTHER -> inputValue

\* if (!inputValue.trim() || isLoading) return;
Accepts(c, inputValue) == ~(Trim(inputValue) = "" \/ ChatOf(c).isLoading)

\* The submissions that still have a message to append.
Loading == Cardinality({c \in DOMAIN chats : chats[c].isLoading})

HasRoom(n) == uuid + n + Loading <= MaxUuid

errorMessage ==
  [role |-> "assistant",
   content |-> "Sorry, there was an error communicating with Claude. Please try again."]

\* Mutant: the catch block appends nothing.
catchError_Silent(verseId) == Unchanged

\* catch (error) { ... addChatMessage(verseId, errorMessage) }
catchError(verseId) == addChatMessage(verseId, errorMessage)

\* data.content?.[0]?.text || 'Sorry, I had trouble responding.'
assistantMessage(text) ==
  [role |-> "assistant", content |-> Or(text, "Sorry, I had trouble responding.")]

\* handleSubmit up to the await of fetch.  The window is rendered for a verse
\* of the store, so "if (!verse) throw" does not fire here.
HandleSubmit(verseId, c, inputValue) ==
  /\ c \in ChatWindowsOf(verseId)
  /\ Accepts(c, inputValue)
  /\ HasRoom(2)
  /\ AddChatMessage(verseId, [role |-> "user", content |-> Trim(inputValue)])
  /\ SetChat(c, [ChatOf(c) EXCEPT !.verseId = verseId, !.isLoading = TRUE,
                                  !.apiError = <<>>, !.phase = "fetching",
                                  !.status = None, !.userMessageId = uuid + 1,
                                  !.outcome = "none"])
  /\ UNCHANGED others

\* The steps of a pending submission leave the store alone.
Pending(c, phase) ==
  /\ ChatOf(c).phase = phase
  /\ UNCHANGED <<verses, activeVerseId, selectedModel, canvasView, uuid, now,
                 removed, steps, missed, others>>

\* fetch rejects: a network error
FetchRejects(c) ==
  /\ Pending(c, "fetching")
  /\ SetChat(c, [ChatOf(c) EXCEPT !.phase = "thrown"])

ResponseStatuses == {200, 401, 500}

\* fetch resolves with a response; response.ok is a status in 200..299
FetchResolves(c, status) ==
  /\ Pending(c, "fetching")
  /\ SetChat(c, [ChatOf(c) EXCEPT
                   !.status = status,
                   !.phase = IF status \in 200..299 THEN "readingReply"
                             ELSE "readingError"])

ErrorTexts == {""}

\* await response.json() of a response that is not ok: it rejects (parsed is
\* FALSE), or it resolves and the handler throws; a 401 sets apiError first.
ErrorBodySettles(c, parsed, error) ==
  /\ Pending(c, "readingError")
  /\ SetChat(c, [ChatOf(c) EXCEPT
                   !.phase = "thrown",
                   !.apiError =
                     IF parsed /\ ChatOf(c).status = 401
                     THEN <<Or(error, "API key error. Please check your API key in settings.")>>
                     ELSE @])

\* await response.json() of an ok response rejects
ReplyBodyRejects(c) ==
  /\ Pending(c, "readingReply")
  /\ SetChat(c, [ChatOf(c) EXCEPT !.phase = "thrown"])

ReplyTexts == {"hello"}

\* await response.json() resolves: the rest of the try block, then finally
ReplyBodyResolves(c, text) ==
  /\ ChatOf(c).phase = "readingReply"
  /\ AddChatMessage(ChatOf(c).verseId, assistantMessage(text))
  /\ SetChat(c, [ChatOf(c) EXCEPT !.isLoading = FALSE, !.phase = "idle",
                                  !.status = None, !.outcome = "replied"])
  /\ UNCHANGED <<steps, missed, others>>

\* The catch block, then finally
Catch(c) ==
  /\ ChatOf(c).phase = "thrown"
  /\ uuid + 1 <= MaxUuid
  /\ Apply(catchError(ChatOf(c).verseId))
  /\ uuid' = IF HasVerse(ChatOf(c).verseId) THEN uuid + 1 ELSE uuid
  /\ SetChat(c, [ChatOf(c) EXCEPT !.isLoading = FALSE, !.phase = "idle",
                                  !.status = None, !.outcome = "failed"])
  /\ UNCHANGED <<selectedModel, canvasView, now, removed, steps, missed, others>>

ChatIds == 1..MaxUuid

(***************************************************************************)
(* SpecChat: root verses, removeVerse, and the chat windows' submissions.  *)
(* SpecChatFair adds what the event loop gives: a continuation that is     *)
(* ready runs, and the body of a response that has arrived is read to its  *)
(* end (or fails).  Nothing is asked of fetch itself.                      *)
(***************************************************************************)
NextChat ==
  \/ \E p \in Positions :
       /\ Len(verses) + Cardinality(removed) < MaxChats
       /\ HasRoom(2)
       /\ AddVerse(p, None, "") /\ Uncounted
  \/ \E id \in VerseIds : RemoveVerse(id) /\ Uncounted
  \/ \E id \in VerseIds : \E c \in ChatWindowsOf(id), inputValue \in InputValues :
       /\ steps < MaxTurns
       /\ steps' = steps + 1
       /\ UNCHANGED missed
       /\ HandleSubmit(id, c, inputValue)
  \/ \E c \in DOMAIN chats : FetchRejects(c)
  \/ \E c \in DOMAIN chats, status \in ResponseStatuses : FetchResolves(c, status)
  \/ \E c \in DOMAIN chats, parsed \in BOOLEAN, error \in ErrorTexts :
       ErrorBodySettles(c, parsed, error)
  \/ \E c \in DOMAIN chats : ReplyBodyRejects(c)
  \/ \E c \in DOMAIN chats, text \in ReplyTexts : ReplyBodyResolves(c, text)
  \/ \E c \in DOMAIN chats : Catch(c)

SpecChat == Init /\ [][NextChat]_vars

SpecChatFair ==
  /\ SpecChat
  /\ WF_vars(\E c \in ChatIds : Catch(c))
  /\ WF_vars(\E c \in ChatIds, parsed \in BOOLEAN, error \in ErrorTexts :
               ErrorBodySettles(c, parsed, error))

(***************************************************************************)
(* SpecWindows: verses that take further chat components (addComponent     *)
(* with type 'chat'); each chat component is rendered as a ChatWindow of   *)
(* its own, with its own isLoading.                                        *)
(***************************************************************************)
NextWindows ==
  \/ \E p \in Positions :
       /\ Len(verses) < MaxChats
       /\ HasRoom(2)
       /\ AddVerse(p, None, "") /\ Uncounted
  \/ \E id \in VerseIds :
       /\ Len(VerseOf(id).components) <= MaxChats
       /\ HasRoom(1)
       /\ AddComponent(id, "chat", <<>>, <<>>) /\ Uncounted
  \/ \E id \in VerseIds : \E c \in ChatWindowsOf(id), inputValue \in InputValues :
       /\ steps < MaxTurns
       /\ steps' = steps + 1
       /\ UNCHANGED missed
       /\ HandleSubmit(id, c, inputValue)
  \/ \E c \in DOMAIN chats : FetchRejects(c)
  \/ \E c \in DOMAIN chats, status \in ResponseStatuses : FetchResolves(c, status)
  \/ \E c \in DOMAIN chats, parsed \in BOOLEAN, error \in ErrorTexts :
       ErrorBodySettles(c, parsed, error)
  \/ \E c \in DOMAIN chats : ReplyBodyRejects(c)
  \/ \E c \in DOMAIN chats, text \in ReplyTexts : ReplyBodyResolves(c, text)
  \/ \E c \in DOMAIN chats : Catch(c)

SpecWindows == Init /\ [][NextWindows]_vars

(***************************************************************************)
(* Verse component: the state one rendered verse keeps with useState.      *)
(* alert is history: the text of the latest alert() of the component.      *)
(* requested and outcome are history too: which button opened the model    *)
(* picker, and how the latest extraction request ended.                    *)
(***************************************************************************)
InitialPanel(id) ==
  [isAnalyzing |-> FALSE, isGeneratingSystemMap |-> FALSE,
   showModelPicker |-> FALSE,
   selectedBranchModel |-> IF HasVerse(id) THEN VerseOf(id).modelId ELSE "",
   branchMessageId |-> None,
   alert |-> "", requested |-> "none", outcome |-> "none"]

PanelOf(id) == IF id \in DOMAIN panels THEN panels[id] ELSE InitialPanel(id)

SetPanel(id, panel) ==
  panels' = [x \in DOMAIN panels \cup {id} |-> IF x = id THEN panel ELSE panels[x]]

\* verse.chatHistory.filter(msg => msg.role !== 'system')
NonSystemMessages(id) ==
  {i \in 1..Len(VerseOf(id).chatHistory) : VerseOf(id).chatHistory[i].role # "system"}

mockInsightData ==
  [elaborate |->
     <<[id |-> "elab-1", content |-> "Explore user authentication options including OAuth and JWT", column |-> "elaborate"],
       [id |-> "elab-2", content |-> "Consider microservices architecture for better scalability", column |-> "elaborate"],
       [id |-> "elab-3", content |-> "Investigate real-time data synchronization solutions", column |-> "elaborate"]>>,
   problems |->
     <<[id |-> "prob-1", content |-> "Backend performance bottlenecks under high load", column |-> "problems"],
       [id |-> "prob-2", content |-> "Mobile responsiveness issues on smaller screens", column |-> "problems"],
       [id |-> "prob-3", content |-> "Data consistency challenges across distributed systems", column |-> "problems"]>>,
   solutions |->
     <<[id |-> "sol-1", content |-> "Implement caching layer with Redis", column |-> "solutions"],
       [id |-> "sol-2", content |-> "Adopt mobile-first design approach with Tailwind CSS", column |-> "solutions"],
       [id |-> "sol-3", content |-> "Use event sourcing pattern for data integrity", column |-> "solutions"]>>]

mockSystemMapData ==
  [nodes |->
     <<<<[id |-> "user1", label |-> "End User", x |-> 500, y |-> 100, type |-> "user"],
         [id |-> "ui1", label |-> "Web Frontend", x |-> 300, y |-> 200, type |-> "component"],
         [id |-> "ui2", label |-> "Mobile App", x |-> 700, y |-> 200, type |-> "component"],
         [id |-> "api1", label |-> "API Gateway", x |-> 500, y |-> 300, type |-> "service"],
         [id |-> "auth", label |-> "Auth Service", x |-> 300, y |-> 400, type |-> "service"],
         [id |-> "core", label |-> "Core Service", x |-> 500, y |-> 400, type |-> "service"],
         [id |-> "notif", label |-> "Notification Service", x |-> 700, y |-> 400, type |-> "service"],
         [id |-> "db1", label |-> "User Database", x |-> 300, y |-> 500, type |-> "database"],
         [id |-> "db2", label |-> "Main Database", x |-> 500, y |-> 500, type |-> "database"],
         [id |-> "ext1", label |-> "Payment Provider", x |-> 700, y |-> 500, type |-> "external"]>>>>,
   edges |->
     <<<<[id |-> "e1", source |-> "user1", target |-> "ui1", label |-> ""],
         [id |-> "e2", source |-> "user1", target |-> "ui2", label |-> ""],
         [id |-> "e3", source |-> "ui1", target |-> "api1", label |-> ""],
         [id |-> "e4", source |-> "ui2", target |-> "api1", label |-> ""],
         [id |-> "e5", source |-> "api1", target |-> "auth", label |-> "authenticate"],
         [id |-> "e6", source |-> "api1", target |-> "core", label |-> "process"],
         [id |-> "e7", source |-> "api1", target |-> "notif", label |-> "notify"],
         [id |-> "e8", source |-> "auth", target |-> "db1", label |-> ""],
         [id |-> "e9", source |-> "core", target |-> "db2", label |-> ""],
         [id |-> "e10", source |-> "core", target |-> "ext1", label |-> "payments"]>>>>]

(***************************************************************************)
(* /api/analyze and /api/systemmap: the text the model returned is         *)
(*   kind "json"     a JSON object                                         *)
(*   kind "wrapped"  a JSON object with text around it                     *)
(*   kind "broken"   braces around something that is not JSON              *)
(*   kind "text"     no braces at all                                      *)
(* JSON.parse takes "json"; the fallback /\{[\s\S]*\}/ finds a match in    *)
(* "wrapped" and "broken", and JSON.parse takes the match of "wrapped".    *)
(***************************************************************************)
OutputKinds == {"json", "wrapped", "broken", "text"}

Parseable(kind) == kind \in {"json", "wrapped"}

\* The status of the route's answer.  A parse that fails ends in the catch
\* around the call: 500, or 401 when the SyntaxError's message holds 'key',
\* 'auth', 'invalid' or '401' (the message quotes the text that did not parse).
RouteStatuses(kind) ==
  CASE Parseable(kind) -> {200}
    [] kind = "broken" -> {401, 500}
    [] OTHER -> {500}

\* What fetch gives the handler: a rejection, or the route's response; result
\* is what the route makes of a parsed output.
RouteReplies(result) ==
  {[rejected |-> TRUE, status |-> None, data |-> <<>>]}
    \cup UNION {{[rejected |-> FALSE, status |-> status,
                  data |-> IF status = 200 THEN <<result>> ELSE <<>>] :
                   status \in RouteStatuses(kind)} : kind \in OutputKinds}

ExtractedCards ==
  [elaborate |-> <<>>, problems |-> CardInputs, solutions |-> <<>>]

ExtractedMap == [nodes |-> <<NodeInputs>>, edges |-> <<EdgeInputs>>]

AnalyzeReplies == RouteReplies(ExtractedCards)

SystemMapReplies == RouteReplies(ExtractedMap)

\* The request did not give the handler an ok response.
RequestFailed(reply) == reply.rejected \/ reply.status \notin 200..299

\* data of the handler after its inner try: the mock data unless the
\* response is ok
DataOr(reply, mock) == IF RequestFailed(reply) THEN mock ELSE reply.data[1]

\* [...(data.elaborate || []), ...(data.problems || []), ...(data.solutions || [])]
allCards(data) == data.elaborate \o data.problems \o data.solutions

\* updateBoardCards(verse.id, allCards); addComponent(verse.id, 'board')
SaveBoard(id, cards) ==
  LET added == addComponent(id, "board", <<>>, <<>>)
  IN Store(Map(added.verses, LAMBDA v :
             IF v.id = id THEN [v EXCEPT !.boardCards = <<cards>>] ELSE v),
           added.activeVerseId)

\* updateSystemMapData(verse.id, data); addComponent(verse.id, 'systemMap')
SaveSystemMap(id, data) ==
  LET added == addComponent(id, "systemMap", <<>>, <<>>)
      typedData == [nodes |-> OrEmpty(data.nodes), edges |-> OrEmpty(data.edges)]
  IN Store(Map(added.verses, LAMBDA v :
             IF v.id = id THEN [v EXCEPT !.systemMapData = <<typedData>>] ELSE v),
           added.activeVerseId)

PanelFrame == UNCHANGED <<steps, missed, chats, sync, docs, tasks, held>>

StoreFrame ==
  UNCHANGED <<verses, activeVerseId, selectedModel, canvasView, uuid, now, removed>>

\* handleAddBoard up to the await of fetch
HandleAddBoard(id) ==
  /\ HasVerse(id)
  /\ ~PanelOf(id).isAnalyzing
  /\ IF VerseOf(id).boardCards # <<>> /\ Len(VerseOf(id).boardCards[1]) > 0
     THEN AddComponent(id, "board", <<>>, <<>>) /\ UNCHANGED panels
     ELSE /\ IF NonSystemMessages(id) = {}
             THEN SetPanel(id, [PanelOf(id) EXCEPT
                                  !.alert = "Start a conversation first to generate insights."])
             ELSE SetPanel(id, [PanelOf(id) EXCEPT !.isAnalyzing = TRUE,
                                                   !.alert = "", !.outcome = "none"])
          /\ StoreFrame
  /\ PanelFrame

\* fetch settles; the rest of handleAddBoard.  The handler keeps the verse
\* it was rendered with: verse.id is the id the request was made for.
AnalyzeSettles(id, reply) ==
  /\ PanelOf(id).isAnalyzing
  /\ uuid + 1 <= MaxUuid
  /\ Apply(SaveBoard(id, allCards(DataOr(reply, mockInsightData))))
  /\ uuid' = IF HasVerse(id) THEN uuid + 1 ELSE uuid
  /\ SetPanel(id, [PanelOf(id) EXCEPT
                     !.isAnalyzing = FALSE,
                     !.outcome = IF RequestFailed(reply) THEN "failed" ELSE "ok"])
  /\ UNCHANGED <<selectedModel, canvasView, now, removed>>
  /\ PanelFrame

\* handleGenerateSystemMap up to the await of fetch
HandleGenerateSystemMap(id) ==
  /\ HasVerse(id)
  /\ ~PanelOf(id).isGeneratingSystemMap
  /\ IF VerseOf(id).systemMapData # <<>> /\ Len(VerseOf(id).systemMapData[1].nodes) > 0
     THEN AddComponent(id, "systemMap", <<>>, <<>>) /\ UNCHANGED panels
     ELSE /\ IF NonSystemMessages(id) = {}
             THEN SetPanel(id, [PanelOf(id) EXCEPT
                                  !.alert = "Start a conversation first to generate a system map."])
             ELSE SetPanel(id, [PanelOf(id) EXCEPT !.isGeneratingSystemMap = TRUE,
                                                   !.alert = "", !.outcome = "none"])
          /\ StoreFrame
  /\ PanelFrame

\* fetch settles; the rest of handleGenerateSystemMap
SystemMapSettles(id, reply) ==
  /\ PanelOf(id).isGeneratingSystemMap
  /\ uuid + 1 <= MaxUuid
  /\ Apply(SaveSystemMap(id, DataOr(reply, mockSystemMapData)))
  /\ uuid' = IF HasVerse(id) THEN uuid + 1 ELSE uuid
  /\ SetPanel(id, [PanelOf(id) EXCEPT
                     !.isGeneratingSystemMap = FALSE,
                     !.outcome = IF RequestFailed(reply) THEN "failed" ELSE "ok"])
  /\ UNCHANGED <<selectedModel, canvasView, now, removed>>
  /\ PanelFrame

(***************************************************************************)
(* SpecInsights: root verses that take messages, removeVerse, and the      *)
(* Insights and System Map buttons of the verses.                          *)
(***************************************************************************)
Busy ==
  Cardinality({id \in DOMAIN panels :
                 panels[id].isAnalyzing \/ panels[id].isGeneratingSystemMap})

NextInsights ==
  \/ \E p \in Positions :
       /\ Len(verses) + Cardinality(removed) < MaxChats
       /\ uuid + 2 + Busy <= MaxUuid
       /\ AddVerse(p, None, "") /\ Uncounted
  \/ \E id \in VerseIds :
       /\ Len(VerseOf(id).chatHistory) < MaxTurns
       /\ uuid + 1 + Busy <= MaxUuid
       /\ AddChatMessage(id, [role |-> "user", content |-> "hi"]) /\ Uncounted
  \/ \E id \in VerseIds : RemoveVerse(id) /\ Uncounted
  \/ \E id \in VerseIds : uuid + 2 + Busy <= MaxUuid /\ HandleAddBoard(id)
  \/ \E id \in DOMAIN panels, reply \in AnalyzeReplies : AnalyzeSettles(id, reply)
  \/ \E id \in VerseIds : uuid + 2 + Busy <= MaxUuid /\ HandleGenerateSystemMap(id)
  \/ \E id \in DOMAIN panels, reply \in SystemMapReplies : SystemMapSettles(id, reply)

SpecInsights == Init /\ [][NextInsights]_vars

(***************************************************************************)
(* The model picker of a verse: the Branch button of the verse and the     *)
(* branch button of a message both open it; it covers the verse while it   *)
(* is shown.                                                               *)
(***************************************************************************)
PickerFrame ==
  /\ StoreFrame
  /\ UNCHANGED <<chats, sync, docs, tasks, held>>

\* The branchFromMessage event of a message of this verse: handleBranchEvent,
\* handleBranchFromMessage
HandleBranchFromMessage(id, messageId) ==
  /\ HasVerse(id)
  /\ ~PanelOf(id).showModelPicker
  /\ \E i \in 1..Len(VerseOf(id).chatHistory) : VerseOf(id).chatHistory[i].id = messageId
  /\ SetPanel(id, [PanelOf(id) EXCEPT !.branchMessageId = messageId,
                                      !.selectedBranchModel = VerseOf(id).modelId,
                                      !.showModelPicker = TRUE,
                                      !.requested = "message"])
  /\ PickerFrame

\* The Branch button of the verse
HandleBranch(id) ==
  /\ HasVerse(id)
  /\ ~PanelOf(id).showModelPicker
  /\ SetPanel(id, [PanelOf(id) EXCEPT !.selectedBranchModel = VerseOf(id).modelId,
                                      !.showModelPicker = TRUE,
                                      !.requested = "verse"])
  /\ PickerFrame

\* A model of the picker is clicked
SelectBranchModel(id, modelId) ==
  /\ HasVerse(id)
  /\ PanelOf(id).showModelPicker
  /\ SetPanel(id, [PanelOf(id) EXCEPT !.selectedBranchModel = modelId])
  /\ PickerFrame

\* Cancel, and the close button of the picker
CancelPicker(id) ==
  /\ HasVerse(id)
  /\ PanelOf(id).showModelPicker
  /\ SetPanel(id, [PanelOf(id) EXCEPT !.showModelPicker = FALSE,
                                      !.branchMessageId = None])
  /\ PickerFrame

\* Create Branch: handleCreateBranch(branchMessageId || undefined)
HandleCreateBranch(id) ==
  /\ HasVerse(id)
  /\ PanelOf(id).showModelPicker
  /\ BranchVerse(id, PanelOf(id).selectedBranchModel, PanelOf(id).branchMessageId)
  /\ SetPanel(id, [PanelOf(id) EXCEPT !.showModelPicker = FALSE])
  /\ UNCHANGED <<chats, sync, docs, tasks, held>>

(***************************************************************************)
(* SpecPicker: root verses that take messages, and the branch dialogs of   *)
(* the verses, MaxSteps clicks in all.                                     *)
(***************************************************************************)
Click ==
  /\ steps < MaxSteps
  /\ steps' = steps + 1
  /\ UNCHANGED missed

NextPicker ==
  \/ \E p \in Positions :
       /\ Len(verses) < MaxChats
       /\ AddVerse(p, None, "") /\ Uncounted
  \/ \E id \in VerseIds :
       /\ Len(VerseOf(id).chatHistory) <= MaxChats
       /\ AddChatMessage(id, [role |-> "user", content |-> "hi"]) /\ Uncounted
  \/ \E id \in VerseIds : \E messageId \in MessageIdsOf(id) :
       HandleBranchFromMessage(id, messageId) /\ Click
  \/ \E id \in VerseIds : HandleBranch(id) /\ Click
  \/ \E id \in VerseIds, modelId \in GivenModelIds \ {""} :
       SelectBranchModel(id, modelId) /\ Click
  \/ \E id \in VerseIds : CancelPicker(id) /\ Click
  \/ \E id \in VerseIds : HandleCreateBranch(id) /\ Click

SpecPicker == Init /\ [][NextPicker]_vars

(***************************************************************************)
(* SpecActive: addVerse, branchVerse, removeVerse, and setActiveVerse with *)
(* null or the id of a verse of the collection; MaxSteps calls in all.     *)
(***************************************************************************)
NextActive ==
  \/ \E p \in Positions, parentId \in {None} \cup VerseIds :
       AddVerse(p, parentId, "") /\ Unaddressed
  \/ \E id \in VerseIds : \E messageId \in {None} \cup MessageIdsOf(id) :
       BranchVerse(id, "", messageId) /\ Unaddressed
  \/ \E id \in VerseIds : RemoveVerse(id) /\ Unaddressed
  \/ \E id \in {None} \cup VerseIds : SetActiveVerse(id) /\ Unaddressed

SpecActive == Init /\ [][NextActive]_vars

(***************************************************************************)
(* SpecComponents: the calls that add a verse or add and remove the        *)
(* components of one, MaxSteps calls in all.                               *)
(***************************************************************************)
AddedTypes == {"postIt", "chat"}

NextComponents ==
  \/ \E p \in Positions : AddVerse(p, None, "") /\ Unaddressed
  \/ \E id \in VerseIds : BranchVerse(id, "", None) /\ Addressed(id)
  \/ \E id \in VerseIds, type \in AddedTypes :
       AddComponent(id, type, <<>>, <<>>) /\ Addressed(id)
  \/ \E id \in VerseIds : AddDefaultPostIt(id) /\ Addressed(id)
  \/ \E id \in VerseIds :
       \E componentId \in ComponentIdsOf(id) :
         RemoveComponent(id, componentId) /\ Addressed(id)

SpecComponents == Init /\ [][NextComponents]_vars

(***************************************************************************)
(* SpecRemoved: verses are added, branched and removed while chat windows  *)
(* submit, and calls go on naming the verses that were removed: branchVerse*)
(* of a removed verse, and the addChatMessage of a submission that settles *)
(* after its verse is gone.                                                *)
(***************************************************************************)
NextRemoved ==
  \/ \E p \in Positions :
       /\ Len(verses) + Cardinality(removed) < MaxChats
       /\ HasRoom(2)
       /\ AddVerse(p, None, "") /\ Uncounted
  \/ \E id \in VerseIds \cup RemovedIds :
       /\ steps < MaxTurns
       /\ steps' = steps + 1
       /\ HasRoom(3)
       /\ id \in RemovedIds \/ Len(verses) <= MaxChats
       /\ BranchVerse(id, "", None)
       /\ UNCHANGED <<missed, chats, others>>
  \/ \E id \in VerseIds : RemoveVerse(id) /\ Uncounted
  \/ \E id \in VerseIds : \E c \in ChatWindowsOf(id), inputValue \in InputValues :
       /\ steps < MaxTurns
       /\ steps' = steps + 1
       /\ UNCHANGED missed
       /\ HandleSubmit(id, c, inputValue)
  \/ \E c \in DOMAIN chats : FetchRejects(c)
  \/ \E c \in DOMAIN chats, status \in ResponseStatuses : FetchResolves(c, status)
  \/ \E c \in DOMAIN chats, parsed \in BOOLEAN, error \in ErrorTexts :
       ErrorBodySettles(c, parsed, error)
  \/ \E c \in DOMAIN chats : ReplyBodyRejects(c)
  \/ \E c \in DOMAIN chats, text \in ReplyTexts : ReplyBodyResolves(c, text)
  \/ \E c \in DOMAIN chats : Catch(c)

SpecRemoved == Init /\ [][NextRemoved]_vars

(***************************************************************************)
(* The store calls as functions of the collection they are given, so that  *)
(* one can be applied to the result of another: set((state) => ...) with   *)
(* state.verses as the parameter vs.  id is what uuidv4() returns to the   *)
(* call, and the timestamp is what Date.now() reads.                       *)
(***************************************************************************)
HasVerseIn(vs, id) == \E i \in 1..Len(vs) : vs[i].id = id

\* vs.find(v => v.id === id), for an id that HasVerseIn
VerseIn(vs, id) == vs[FindIndex(vs, LAMBDA v : v.id = id) + 1]

\* vs.map(verse => verse.id === id ? f(verse) : verse)
OnVerseIn(vs, id, f(_)) ==
  Map(vs, LAMBDA verse : IF verse.id = id THEN f(verse) ELSE verse)

OnComponentIn(vs, verseId, componentId, f(_)) ==
  OnVerseIn(vs, verseId, LAMBDA v :
    [v EXCEPT !.components =
       Map(v.components, LAMBDA comp : IF comp.id = componentId THEN f(comp) ELSE comp)])

updateVersePositionIn(vs, id, position) ==
  OnVerseIn(vs, id, LAMBDA verse : [verse EXCEPT !.position = position])

updateVerseSizeIn(vs, id, size) ==
  OnVerseIn(vs, id, LAMBDA verse : [verse EXCEPT !.size = size])

updateVerseNameIn(vs, id, name) ==
  OnVerseIn(vs, id, LAMBDA verse : [verse EXCEPT !.name = name])

updateVerseModelIn(vs, id, modelId) ==
  OnVerseIn(vs, id, LAMBDA verse : [verse EXCEPT !.modelId = modelId])

updateSystemPromptIn(vs, verseId, systemPrompt) ==
  OnVerseIn(vs, verseId, LAMBDA verse : [verse EXCEPT !.systemPrompt = systemPrompt])

addChatMessageIn(vs, id, verseId, message) ==
  LET messageWithMeta ==
        [role |-> message.role, content |-> message.content,
         id |-> id, timestamp |-> now]
  IN OnVerseIn(vs, verseId, LAMBDA verse :
       [verse EXCEPT !.chatHistory = Append(verse.chatHistory, messageWithMeta)])

\* addComponent without position and initialData
addComponentIn(vs, id, verseId, type) ==
  IF ~HasVerseIn(vs, verseId) THEN vs
  ELSE
  LET verse == VerseIn(vs, verseId)
      maxZIndex == MaxZ(verse.components)
      defaultPosition ==
        IF type = "postIt"
        THEN [x |-> 50, y |-> 50]
        ELSE [x |-> verse.size.width \div 4, y |-> verse.size.height \div 4]
      newComponent ==
        [id |-> id,
         type |-> type,
         position |-> defaultPosition,
         size |-> ComponentSize(type),
         zIndex |-> maxZIndex + 1,
         data |-> IF type = "postIt"
                  THEN [kind |-> "object", text |-> "", color |-> "#FFFF88"]
                  ELSE NoData]
  IN OnVerseIn(vs, verseId, LAMBDA v :
       [v EXCEPT !.components = Append(v.components, newComponent)])

removeComponentIn(vs, verseId, componentId) ==
  IF ~HasVerseIn(vs, verseId) THEN vs
  ELSE IF Len(VerseIn(vs, verseId).components) <= 1 THEN vs
  ELSE OnVerseIn(vs, verseId, LAMBDA v :
         [v EXCEPT !.components = Filter(v.components, LAMBDA comp : comp.id # componentId)])

updateComponentPositionIn(vs, verseId, componentId, position) ==
  OnComponentIn(vs, verseId, componentId, LAMBDA comp : [comp EXCEPT !.position = position])

updateComponentSizeIn(vs, verseId, componentId, size) ==
  OnComponentIn(vs, verseId, componentId, LAMBDA comp : [comp EXCEPT !.size = size])

setActiveComponentIn(vs, verseId, componentId) ==
  IF ~HasVerseIn(vs, verseId) THEN vs
  ELSE
  LET maxZIndex == MaxZ(VerseIn(vs, verseId).components)
  IN OnComponentIn(vs, verseId, componentId, LAMBDA comp :
       [comp EXCEPT !.zIndex = maxZIndex + 1])

\* A call of the store: the action's name and its ids.  The payloads are the
\* ones the specifications pass: MovedPosition, ResizedSize, NameInput,
\* availableModels[2], PromptInput, a user message.
FieldUpdates ==
  {"updateVersePosition", "updateVerseSize", "updateVerseName",
   "updateVerseModel", "updateSystemPrompt"}

ComponentUpdates ==
  {"removeComponent", "updateComponentPosition", "updateComponentSize",
   "setActiveComponent"}

Calls ==
  {[name |-> name, verseId |-> id, componentId |-> None, type |-> ""] :
     name \in FieldUpdates \cup {"addChatMessage"}, id \in VerseIds}
  \cup {[name |-> "addComponent", verseId |-> id, componentId |-> None, type |-> type] :
          id \in VerseIds, type \in AddedTypes}
  \cup UNION {{[name |-> name, verseId |-> id, componentId |-> componentId, type |-> ""] :
                 name \in ComponentUpdates, componentId \in ComponentIdsOf(id)} :
              id \in VerseIds}

\* The collection a call returns for the collection s.verses, with the
\* count s.uuid of the ids drawn so far.
Then(s, call) ==
  LET vs == s.verses
      id == s.uuid + 1
  IN CASE call.name = "updateVersePosition" ->
            [s EXCEPT !.verses = updateVersePositionIn(vs, call.verseId, MovedPosition)]
       [] call.name = "updateVerseSize" ->
            [s EXCEPT !.verses = updateVerseSizeIn(vs, call.verseId, ResizedSize)]
       [] call.name = "updateVerseName" ->
            [s EXCEPT !.verses = updateVerseNameIn(vs, call.verseId, NameInput)]
       [] call.name = "updateVerseModel" ->
            [s EXCEPT !.verses = updateVerseModelIn(vs, call.verseId, availableModels[2])]
       [] call.name = "updateSystemPrompt" ->
            [s EXCEPT !.verses = updateSystemPromptIn(vs, call.verseId, PromptInput)]
       [] call.name = "addChatMessage" ->
            [verses |-> addChatMessageIn(vs, id, call.verseId,
                                         [role |-> "user", content |-> "hi"]),
             uuid |-> id]
       [] call.name = "addComponent" ->
            [verses |-> addComponentIn(vs, id, call.verseId, call.type), uuid |-> id]
       [] call.name = "removeComponent" ->
            [s EXCEPT !.verses = removeComponentIn(vs, call.verseId, call.componentId)]
       [] call.name = "updateComponentPosition" ->
            [s EXCEPT !.verses =
               updateComponentPositionIn(vs, call.verseId, call.componentId, MovedPosition)]
       [] call.name = "updateComponentSize" ->
            [s EXCEPT !.verses =
               updateComponentSizeIn(vs, call.verseId, call.componentId, ResizedSize)]
       [] call.name = "setActiveComponent" ->
            [s EXCEPT !.verses = setActiveComponentIn(vs, call.verseId, call.componentId)]

(***************************************************************************)
(* Persistence (saveToFirestore, createNewCanvas, loadFromFirestore).      *)
(* docs is the canvases collection of Firestore: a function from canvas    *)
(* ids to documents.  tasks holds the calls that are suspended at their    *)
(* await: kind "save" and "create" wait for setDoc, kind "load" for        *)
(* getDoc; data is what a save or create hands to setDoc.  held is the     *)
(* canvas the collection in memory belongs to, and the entry "of" of a     *)
(* document the canvas its collection was taken from; neither is read by   *)
(* the program.                                                            *)
(***************************************************************************)
\* value === undefined ? null : sanitizeForFirestore(value), on component data
sanitizeData(data) == IF data.kind = "undefined" THEN NullData ELSE data

\* sanitizeForFirestore(state.verses): every entry whose value is undefined
\* becomes null; an entry that is not there stays away.  The data of a
\* component is the only entry of a verse that is set to undefined.
sanitizeForFirestore(vs) ==
  [i \in 1..Len(vs) |->
     [vs[i] EXCEPT !.components =
        [k \in 1..Len(vs[i].components) |->
           [vs[i].components[k] EXCEPT !.data = sanitizeData(@)]]]]

dataToSave ==
  [verses |-> sanitizeForFirestore(verses),
   canvasView |-> canvasView,
   activeVerseId |-> activeVerseId,
   selectedModel |-> selectedModel,
   of |-> held]

\* createNewCanvas's dataToSave
blankCanvas(newCanvasId) ==
  [verses |-> <<>>,
   canvasView |-> [zoom |-> 20],
   activeVerseId |-> None,
   selectedModel |-> selectedModel,
   of |-> newCanvasId]

Task(kind, canvasId, data) == [kind |-> kind, canvasId |-> canvasId, data |-> data]

\* What stays as it is in every step of the persistence calls.
SyncFrame == UNCHANGED <<now, removed, missed, chats, panels>>

Called == steps < MaxSteps /\ steps' = steps + 1

SetUserEmail(email) ==
  /\ sync' = [sync EXCEPT !.userEmail = email]
  /\ UNCHANGED <<verses, activeVerseId, selectedModel, canvasView, uuid, docs, tasks, held>>
  /\ SyncFrame

\* saveToFirestore up to the await of setDoc; canvasId is None when not given
SaveToFirestore(canvasId) ==
  LET currentCanvasId == IF canvasId # None THEN canvasId ELSE sync.canvasId
  IN /\ IF sync.userEmail = ""
        THEN UNCHANGED <<sync, tasks>>
        ELSE /\ sync' = [sync EXCEPT !.isSaving = TRUE]
             /\ tasks' = tasks \cup {Task("save", currentCanvasId, dataToSave)}
     /\ UNCHANGED <<verses, activeVerseId, selectedModel, canvasView, uuid, docs, held>>
     /\ SyncFrame

\* setInterval(() => { if (!isSaving) saveToFirestore(); }, 30000)
AutoSave == ~sync.isSaving /\ SaveToFirestore(None)

\* createNewCanvas up to the await of setDoc
CreateNewCanvas ==
  LET newCanvasId == uuid + 1
  IN IF sync.userEmail = ""
     THEN /\ UNCHANGED <<verses, activeVerseId, selectedModel, canvasView, uuid,
                         sync, docs, tasks, held>>
          /\ SyncFrame
     ELSE /\ uuid + 1 <= MaxUuid
          /\ uuid' = uuid + 1
          /\ verses' = <<>>
          /\ activeVerseId' = None
          /\ canvasView' = [zoom |-> 20]
          /\ sync' = [sync EXCEPT !.canvasId = newCanvasId,
                                  !.isLoading = FALSE, !.isSaving = TRUE]
          /\ held' = newCanvasId
          /\ tasks' = tasks \cup {Task("create", newCanvasId, blankCanvas(newCanvasId))}
          /\ UNCHANGED <<selectedModel, docs>>
          /\ SyncFrame

\* setDoc resolves: the document is written, and the rest of the try block
\* runs.  A save sets canvasId to the id it wrote to.
SetDocResolves(task) ==
  /\ task \in tasks
  /\ task.kind \in {"save", "create"}
  /\ docs' = [id \in DOMAIN docs \cup {task.canvasId} |->
                IF id = task.canvasId THEN task.data ELSE docs[id]]
  /\ sync' = IF task.kind = "save"
             THEN [sync EXCEPT !.canvasId = task.canvasId, !.isSaving = FALSE]
             ELSE [sync EXCEPT !.isSaving = FALSE]
  /\ tasks' = tasks \ {task}
  /\ UNCHANGED <<verses, activeVerseId, selectedModel, canvasView, uuid, held, steps>>
  /\ SyncFrame

\* setDoc rejects: the catch block
SetDocRejects(task) ==
  /\ task \in tasks
  /\ task.kind \in {"save", "create"}
  /\ sync' = [sync EXCEPT !.isSaving = FALSE]
  /\ tasks' = tasks \ {task}
  /\ UNCHANGED <<verses, activeVerseId, selectedModel, canvasView, uuid, docs, held, steps>>
  /\ SyncFrame

\* loadFromFirestore up to the await of getDoc
LoadFromFirestore(canvasId) ==
  /\ sync' = [sync EXCEPT !.isLoading = TRUE]
  /\ tasks' = tasks \cup {Task("load", canvasId, blankCanvas(canvasId))}
  /\ UNCHANGED <<verses, activeVerseId, selectedModel, canvasView, uuid, docs, held>>
  /\ SyncFrame

\* getDoc resolves.  The document is there: the state is replaced by it.
\* It is not: the canvas id is taken over and the state in memory is saved
\* under it by saveToFirestore(canvasId), which runs to its own await.
GetDocResolves(task) ==
  /\ task \in tasks
  /\ task.kind = "load"
  /\ IF task.canvasId \in DOMAIN docs
     THEN LET data == docs[task.canvasId]
          IN /\ verses' = data.verses
             /\ canvasView' = data.canvasView
             /\ activeVerseId' = data.activeVerseId
             /\ selectedModel' = data.selectedModel
             /\ sync' = [sync EXCEPT !.canvasId = task.canvasId, !.isLoading = FALSE]
             /\ tasks' = tasks \ {task}
     ELSE /\ UNCHANGED <<verses, canvasView, activeVerseId, selectedModel>>
          /\ IF sync.userEmail = ""
             THEN /\ sync' = [sync EXCEPT !.canvasId = task.canvasId, !.isLoading = FALSE]
                  /\ tasks' = tasks \ {task}
             ELSE /\ sync' = [sync EXCEPT !.canvasId = task.canvasId,
                                          !.isLoading = FALSE, !.isSaving = TRUE]
                  /\ tasks' = (tasks \ {task})
                       \cup {Task("save", task.canvasId,
                                  [dataToSave EXCEPT !.of = task.canvasId])}
  /\ held' = task.canvasId
  /\ UNCHANGED <<uuid, docs, steps>>
  /\ SyncFrame

\* getDoc rejects: the catch block
GetDocRejects(task) ==
  /\ task \in tasks
  /\ task.kind = "load"
  /\ sync' = [sync EXCEPT !.isLoading = FALSE]
  /\ tasks' = tasks \ {task}
  /\ UNCHANGED <<verses, activeVerseId, selectedModel, canvasView, uuid, docs, held, steps>>
  /\ SyncFrame

(***************************************************************************)
(* SpecSync: a signed-in user adds verses and boards to the canvas while   *)
(* the canvas is saved (by hand and by the timer), loaded and replaced by  *)
(* a new one, MaxSteps calls in all after the sign-in; each suspended call *)
(* resumes whenever its request settles.                                   *)
(***************************************************************************)
EmailInput == "me@example.com"

CanvasIds == {DefaultCanvasId, sync.canvasId} \cup DOMAIN docs

StoreCall == UNCHANGED <<missed, chats, others>>

NextSync ==
  \/ SetUserEmail(EmailInput) /\ sync.userEmail = "" /\ UNCHANGED steps
  \/ \E p \in Positions : AddVerse(p, None, "") /\ Called /\ StoreCall
  \/ \E id \in VerseIds : AddComponent(id, "board", <<>>, <<>>) /\ Called /\ StoreCall
  \/ SaveToFirestore(None) /\ Called
  \/ AutoSave /\ Called
  \/ CreateNewCanvas /\ Called
  \/ \E canvasId \in CanvasIds : LoadFromFirestore(canvasId) /\ Called
  \/ \E task \in tasks : SetDocResolves(task)
  \/ \E task \in tasks : SetDocRejects(task)
  \/ \E task \in tasks : GetDocResolves(task)
  \/ \E task \in tasks : GetDocRejects(task)

SpecSync == Init /\ [][NextSync]_vars

(***************************************************************************)
(* SpecOrphans: roots, branches of the verses that are there, user         *)
(* messages and removeVerse; a removed verse leaves its branches behind    *)
(* with a parentId that names no verse.                                    *)
(***************************************************************************)
NextOrphans ==
  \/ \E p \in Positions : AddVerse(p, None, "") /\ Uncounted
  \/ \E id \in VerseIds :
       \E messageId \in {None} \cup MessageIdsOf(id) :
         BranchVerse(id, "", messageId) /\ Uncounted
  \/ \E id \in VerseIds : RemoveVerse(id) /\ Uncounted
  \/ \E id \in VerseIds :
       AddChatMessage(id, [role |-> "user", content |-> "hi"]) /\ Uncounted

SpecOrphans == Init /\ [][NextOrphans]_vars

(***************************************************************************)
(* Definitions the properties are stated with.                             *)
(***************************************************************************)
InSeq(x, s) == \E i \in 1..Len(s) : s[i] = x

IsSuffix(t, s) == Len(t) <= Len(s) /\ SubSeq(s, Len(s) - Len(t) + 1, Len(s)) = t

Verses == {verses[i] : i \in 1..Len(verses)}

\* The places of all branches lists where id stands.
BranchPlaces(id) ==
  UNION {{<<j, k>> : k \in {n \in 1..Len(verses[j].branches) : verses[j].branches[n] = id}} :
         j \in 1..Len(verses)}

RECURSIVE ChainEnd(_, _)
\* Where following parentId from the verse id ends: at a root, at an id that
\* is not in the collection, or at a verse already visited.
ChainEnd(id, seen) ==
  IF id \in seen THEN [kind |-> "cycle", at |-> id]
  ELSE IF ~HasVerse(id) THEN [kind |-> "missing", at |-> id]
  ELSE IF VerseOf(id).parentId = None THEN [kind |-> "root", at |-> id]
  ELSE ChainEnd(VerseOf(id).parentId, seen \cup {id})

RECURSIVE AncestorsOf(_, _)
\* The verses of the collection above the verse id, as far as the chain goes.
AncestorsOf(id, seen) ==
  IF id \in seen \/ ~HasVerse(id) \/ VerseOf(id).parentId = None
     \/ ~HasVerse(VerseOf(id).parentId)
  THEN {}
  ELSE {VerseOf(VerseOf(id).parentId)}
       \cup AncestorsOf(VerseOf(id).parentId, seen \cup {id})

\* branch has a parent in the collection
HasParent(branch) == branch.parentId # None /\ HasVerse(branch.parentId)

ParentOf(branch) == VerseOf(branch.parentId)

\* 1-based place of the branch point in the parent's history, 0 when absent
BranchPoint(branch) ==
  LET history == ParentOf(branch).chatHistory
      hits == {i \in 1..Len(history) : history[i].id = branch.branchSourceMessageId}
  IN IF hits = {} THEN 0 ELSE CHOOSE i \in hits : \A j \in hits : i <= j

Turns(history) ==
  LET kept == SelectSeq(history, LAMBDA m : m.role \in {"user", "assistant"})
  IN [i \in 1..Len(kept) |-> [role |-> kept[i].role, content |-> kept[i].content]]

\* The parent's turns up to and including the branch point.
TurnsToBranchPoint(branch) ==
  Turns(SubSeq(ParentOf(branch).chatHistory, 1, BranchPoint(branch)))

IsMessageBranch(branch) ==
  HasParent(branch) /\ branch.branchSourceMessageId # None /\ BranchPoint(branch) > 0

IsWholeBranch(branch) == HasParent(branch) /\ branch.branchSourceMessageId = None

Context(verse) == ContextMessages(assembleContext(verse.id))

\* context = (turns of the ancestors of the parent) followed by own, and
\* nothing of the ancestors when the parent has none in the collection.
EndsWithAfterAncestors(context, own, parent) ==
  /\ IsSuffix(own, context)
  /\ \A i \in 1..(Len(context) - Len(own)) :
       \E a \in AncestorsOf(parent.id, {}) : InSeq(context[i], Turns(a.chatHistory))

(***************************************************************************)
(* C1  For any two verses v and p of the collection, v.id is in p.branches *)
(* exactly when v.parentId = p.id, and v.id stands at most once in all     *)
(* branches lists together.                                                *)
(***************************************************************************)
C1_BranchesMirrorParentId ==
  \A v \in Verses :
    /\ \A p \in Verses : InSeq(v.id, p.branches) <=> v.parentId = p.id
    /\ Cardinality(BranchPlaces(v.id)) <= 1

\* A parent that lost one child to removeVerse and still lists another.
C1_Witness ==
  \E p \in Verses, r \in removed, v \in Verses :
    r.parentId = p.id /\ v.parentId = p.id /\ InSeq(v.id, p.branches)

(***************************************************************************)
(* C2 (as claimed)  Following parentId from any verse never revisits a     *)
(* verse and ends at a root of the collection.                             *)
(***************************************************************************)
C2_EndsAtRoot ==
  \A v \in Verses : ChainEnd(v.id, {}).kind = "root"

(***************************************************************************)
(* C2 (amended)  Following parentId from any verse never revisits a verse  *)
(* and ends at a root of the collection or at the id of a verse that       *)
(* removeVerse took out of the collection.                                 *)
(***************************************************************************)
C2_EndsAtRootOrRemoved ==
  \A v \in Verses :
    LET end == ChainEnd(v.id, {})
    IN \/ end.kind = "root"
       \/ end.kind = "missing" /\ end.at \in RemovedIds

\* A branch of a branch whose chain ends at a removed verse.
C2_Witness ==
  \E v \in Verses :
    /\ HasParent(v)
    /\ ChainEnd(v.id, {}).kind = "missing"
    /\ ChainEnd(v.id, {}).at \in RemovedIds

(***************************************************************************)
(* C3 (as claimed)  The context of a branch made at message m of its       *)
(* parent is exactly the parent's non-system messages up to and including  *)
(* m, in order.                                                            *)
(***************************************************************************)
C3_ExactlyParentPrefix ==
  \A b \in Verses : IsMessageBranch(b) => Context(b) = TurnsToBranchPoint(b)

(***************************************************************************)
(* C3 (amended)  The context of a branch made at message m of its parent   *)
(* ends with the parent's non-system messages up to and including m, in    *)
(* order; what stands before them are messages of the parent's own         *)
(* ancestors, and nothing when the parent has no parent in the collection. *)
(* No message the parent received after m is part of it.                   *)
(***************************************************************************)
C3_ParentCutAtBranchPoint ==
  \A b \in Verses :
    IsMessageBranch(b) =>
      EndsWithAfterAncestors(Context(b), TurnsToBranchPoint(b), ParentOf(b))

\* A message-level branch whose parent has turns before and after the
\* branch point.
C3_Witness ==
  \E b \in Verses :
    /\ IsMessageBranch(b)
    /\ TurnsToBranchPoint(b) # <<>>
    /\ Len(Turns(ParentOf(b).chatHistory)) > Len(TurnsToBranchPoint(b))
    /\ Context(b) = TurnsToBranchPoint(b)

(***************************************************************************)
(* C4  For a chain A -> B -> C, B a branch of the root A at message m and  *)
(* C a whole-verse branch of B, the context of C is A's non-system         *)
(* messages up to and including m followed by B's non-system messages.     *)
(***************************************************************************)
C4_AncestorCutByItsChild ==
  \A c \in Verses :
    (/\ IsWholeBranch(c)
     /\ IsMessageBranch(ParentOf(c))
     /\ ParentOf(ParentOf(c)).parentId = None)
    => Context(c) = TurnsToBranchPoint(ParentOf(c)) \o Turns(ParentOf(c).chatHistory)

(***************************************************************************)
(* C5  The context of a whole-verse branch is the context of its parent    *)
(* followed by the whole of the parent's current non-system history.       *)
(***************************************************************************)
C5_WholeBranchContext ==
  \A b \in Verses :
    IsWholeBranch(b) =>
      Context(b) = Context(ParentOf(b)) \o Turns(ParentOf(b).chatHistory)

(***************************************************************************)
(* C6  No assembled context holds a message of role system.                *)
(***************************************************************************)
C6_NoSystemMessageInContext ==
  \A v \in Verses :
    \A i \in 1..Len(assembleContext(v.id)) : assembleContext(v.id)[i].role # "system"

\* A branch of a branch, with a context, below a verse that was given a
\* system message by addChatMessage.
C6_Witness ==
  \E c \in Verses :
    /\ HasParent(c) /\ HasParent(ParentOf(c))
    /\ \E m \in MessageInputs :
         m.role = "system" /\ InSeq(m, [i \in 1..Len(ParentOf(ParentOf(c)).chatHistory) |->
                                        Render(ParentOf(ParentOf(c)).chatHistory[i])])
    /\ ParentOf(c).chatHistory[1].role = "system"
    /\ Context(c) # <<>>

(***************************************************************************)
(* C7  When the branchSourceMessageId of a verse is the id of no message   *)
(* of its parent, its context ends with the parent's whole non-system      *)
(* history (after the messages of the parent's own ancestors, if any).     *)
(***************************************************************************)
C7_MissingBranchPointNoCut ==
  \A b \in Verses :
    (HasParent(b) /\ b.branchSourceMessageId # None /\ BranchPoint(b) = 0) =>
      EndsWithAfterAncestors(Context(b), Turns(ParentOf(b).chatHistory), ParentOf(b))

\* Such a verse, below a root that has turns.
C7_Witness ==
  \E b \in Verses :
    /\ HasParent(b) /\ b.branchSourceMessageId # None /\ BranchPoint(b) = 0
    /\ ParentOf(b).parentId = None
    /\ Len(Turns(ParentOf(b).chatHistory)) >= 2
    /\ Context(b) = Turns(ParentOf(b).chatHistory)

(***************************************************************************)
(* C8  The context of a verse without parentId is empty.                   *)
(***************************************************************************)
C8_RootContextEmpty ==
  \A v \in Verses : v.parentId = None => assembleContext(v.id) = <<>>

\* A root that has turns of its own and a branch.
C8_Witness ==
  \E v \in Verses :
    /\ v.parentId = None
    /\ Turns(v.chatHistory) # <<>>
    /\ v.branches # <<>>
    /\ assembleContext(v.id) = <<>>

(***************************************************************************)
(* C9  branchVerse with a message id that is the id of no message of the   *)
(* parent creates nothing and leaves the store as it is; so every          *)
(* branchSourceMessageId names a message of the parent.                    *)
(***************************************************************************)
C9_UnknownMessageRejected ==
  /\ \A id \in VerseIds : \A messageId \in StrayIds :
       branchVerse(id, "", messageId) = Unchanged
  /\ \A b \in Verses :
       (HasParent(b) /\ b.branchSourceMessageId # None) => BranchPoint(b) > 0

\* The ids that name no verse of the store.
AbsentIds == (StrayIds \cup RemovedIds) \ VerseIds

\* Every verse-addressed reducer, given an absent id, returns the store as it is.
ReducersIgnoreAbsent ==
  \A id \in AbsentIds :
    /\ \A modelId \in {"", availableModels[2]}, messageId \in {None} \cup StrayIds :
         branchVerse(id, modelId, messageId) = Unchanged
    /\ removeVerse(id) = Unchanged
    /\ \A message \in MessageInputs : addChatMessage(id, message) = Unchanged
    /\ updateVersePosition(id, MovedPosition) = Unchanged
    /\ updateVerseSize(id, ResizedSize) = Unchanged
    /\ updateVerseName(id, NameInput) = Unchanged
    /\ updateVerseModel(id, availableModels[2]) = Unchanged
    /\ updateSystemPrompt(id, PromptInput) = Unchanged
    /\ updateBoardCards(id, CardInputs) = Unchanged
    /\ \A cardId \in CardIdInputs : updateCardColumn(id, cardId, ColumnInput) = Unchanged
    /\ \A data \in MapDataInputs : updateSystemMapData(id, data) = Unchanged
    /\ \A nodeId \in NodeIdInputs :
         /\ updateSystemMapNode(id, nodeId, MovedPosition.x, MovedPosition.y) = Unchanged
         /\ updateSystemMapNodeLabel(id, nodeId, LabelInput) = Unchanged
    /\ \A edgeId \in EdgeIdInputs :
         updateSystemMapEdgeLabel(id, edgeId, LabelInput) = Unchanged
    /\ \A type \in ComponentTypes : addComponent(id, type, <<>>, <<>>) = Unchanged
    /\ \A componentId \in StrayIds \cup UNION {ComponentIdsOf(v) : v \in VerseIds} :
         /\ removeComponent(id, componentId) = Unchanged
         /\ updateComponentPosition(id, componentId, MovedPosition) = Unchanged
         /\ updateComponentSize(id, componentId, ResizedSize) = Unchanged
         /\ setActiveComponent(id, componentId) = Unchanged

\* C10: a verse-addressed mutation (branchVerse, removeVerse, addChatMessage,
\* the verse field updates, the board and system-map updates, the component
\* operations) called with an id that is not in the collection leaves verses
\* and activeVerseId as they were: no such call is enabled to change them, and
\* every such call that is made changes neither.
C10_AbsentVerseNoChange ==
  /\ []ReducersIgnoreAbsent
  /\ [][missed' => store' = store]_vars

\* A call named an absent verse while the store held verses, one of them
\* the active one.
C10_Witness ==
  /\ missed
  /\ verses # <<>>
  /\ activeVerseId \in VerseIds

(***************************************************************************)
(* Definitions for the claims about single store calls.                    *)
(***************************************************************************)
\* The verse a creating call appended.
Created(result) == result.verses[Len(result.verses)]

(***************************************************************************)
(* C11  A verse created by branchVerse(parent, model, messageId) has       *)
(* parentId = parent.id, has branchSourceMessageId set exactly when a      *)
(* messageId was given, and has a chatHistory of exactly one message, of   *)
(* role system; the content of that message for a message-level branch     *)
(* differs from its content for a whole-verse branch.                      *)
(***************************************************************************)
C11_BranchSeed ==
  \A id \in VerseIds :
    \A messageId \in MessageIdInputs(id) :
      LET result == branchVerse(id, "", messageId)
          whole == Created(branchVerse(id, "", None))
      IN /\ Len(result.verses) = Len(verses) + 1
         /\ Created(result).parentId = id
         /\ Created(result).branchSourceMessageId # None <=> messageId # None
         /\ Len(Created(result).chatHistory) = 1
         /\ Created(result).chatHistory[1].role = "system"
         /\ messageId # None =>
              Created(result).chatHistory[1].content # whole.chatHistory[1].content

\* A message-level and a whole-verse branch, as created.
C11_Witness ==
  \E b \in Verses, c \in Verses :
    /\ IsMessageBranch(b) /\ IsWholeBranch(c)
    /\ Len(b.chatHistory) = 1 /\ Len(c.chatHistory) = 1
    /\ b.chatHistory[1].role = "system" /\ c.chatHistory[1].role = "system"
    /\ b.chatHistory[1].content # c.chatHistory[1].content

(***************************************************************************)
(* C12  The systemPrompt of a verse created by branchVerse is the parent's *)
(* systemPrompt at that moment; updateSystemPrompt on a verse afterwards   *)
(* sets the prompt of that verse and of no other, so an update of the      *)
(* parent leaves the child's prompt as it was and an update of the child   *)
(* leaves the parent's.                                                    *)
(***************************************************************************)
C12_PromptCopied ==
  \A id \in VerseIds :
    /\ \A messageId \in MessageIdInputs(id) :
         Created(branchVerse(id, "", messageId)).systemPrompt
           = VerseOf(id).systemPrompt
    /\ LET result == updateSystemPrompt(id, PromptInput)
       IN /\ Len(result.verses) = Len(verses)
          /\ \A i \in 1..Len(verses) :
               result.verses[i].systemPrompt =
                 IF verses[i].id = id THEN PromptInput ELSE verses[i].systemPrompt

\* A branch and its parent whose prompts differ after an update of one of
\* them.
C12_Witness ==
  \E c \in Verses :
    /\ HasParent(c)
    /\ c.systemPrompt # ParentOf(c).systemPrompt
    /\ PromptInput \in {c.systemPrompt, ParentOf(c).systemPrompt}

(***************************************************************************)
(* C13  The modelId of a verse created by branchVerse is the modelId       *)
(* argument when one is given, otherwise the parent's modelId, otherwise   *)
(* the selected model; the modelId of a verse created by addVerse is the   *)
(* given modelId, otherwise the selected model; no verse is created with   *)
(* an empty modelId.                                                       *)
(***************************************************************************)
C13_ModelFallback ==
  /\ \A p \in Positions, modelId \in GivenModelIds :
       LET created == Created(addVerse(p, None, modelId))
       IN /\ created.modelId = (IF modelId # "" THEN modelId ELSE selectedModel.id)
          /\ created.modelId # ""
  /\ \A id \in VerseIds, modelId \in GivenModelIds :
       LET created == Created(branchVerse(id, modelId, None))
       IN /\ created.modelId =
               (IF modelId # "" THEN modelId
                ELSE IF VerseOf(id).modelId # "" THEN VerseOf(id).modelId
                ELSE selectedModel.id)
          /\ created.modelId # ""

\* A branch that took the selected model, which is not the first of the
\* list, because none was given and its parent has none.
C13_Witness ==
  \E c \in Verses :
    /\ HasParent(c)
    /\ ParentOf(c).modelId = ""
    /\ selectedModel.id = availableModels[3]
    /\ c.modelId = selectedModel.id

(***************************************************************************)
(* C14  A branchVerse that finds its parent changes the parent only by     *)
(* appending the new verse's id at the end of parent.branches (chatHistory,*)
(* systemPrompt, modelId, components, parentId and all its other fields    *)
(* stay), and changes no other verse.                                      *)
(***************************************************************************)
C14_BranchFrame ==
  \A id \in VerseIds :
    \A messageId \in MessageIdInputs(id) :
      LET result == branchVerse(id, "", messageId)
      IN /\ Len(result.verses) = Len(verses) + 1
         /\ \A i \in 1..Len(verses) :
              result.verses[i] =
                IF verses[i].id = id
                THEN [verses[i] EXCEPT
                        !.branches = Append(verses[i].branches, Created(result).id)]
                ELSE verses[i]

\* A parent with a history and an earlier branch, whose last branch is the
\* verse created last.
C14_Witness ==
  \E p \in Verses :
    /\ Len(p.branches) >= 2
    /\ p.chatHistory # <<>>
    /\ p.branches[Len(p.branches)] = verses[Len(verses)].id
    /\ verses[Len(verses)].parentId = p.id

(***************************************************************************)
(* C15  removeVerse(v) for a verse v of the collection yields the          *)
(* collection without v, with v.id taken out of the branches of v's        *)
(* parent, and every other verse as it was: the children of v stay and     *)
(* keep their parentId. No verse with the id of v is left.                 *)
(***************************************************************************)
C15_RemoveFrame ==
  \A id \in VerseIds :
    LET result == removeVerse(id)
        kept == SelectSeq(verses, LAMBDA v : v.id # id)
    IN /\ Len(result.verses) = Len(verses) - 1
       /\ Len(kept) = Len(result.verses)
       /\ \A i \in 1..Len(kept) :
            /\ result.verses[i].id # id
            /\ result.verses[i] =
                 IF kept[i].id = VerseOf(id).parentId
                 THEN [kept[i] EXCEPT
                         !.branches = SelectSeq(kept[i].branches, LAMBDA b : b # id)]
                 ELSE kept[i]

\* A removed verse whose parent and whose child are still in the
\* collection, the child with its parentId, the parent without the id.
C15_Witness ==
  \E r \in removed, c \in Verses, p \in Verses :
    /\ c.parentId = r.id
    /\ p.id = r.parentId
    /\ ~InSeq(r.id, p.branches)
    /\ ~HasVerse(r.id)

IsPrefix(t, s) == Len(t) <= Len(s) /\ SubSeq(s, 1, Len(t)) = t

\* addChatMessage(id, message) puts one message with the role and content
\* of message at the end of the history of verse id and leaves the other
\* histories as they are.
AppendsOne(id, message) ==
  LET result == addChatMessage(id, message)
  IN /\ Len(result.verses) = Len(verses)
     /\ \A i \in 1..Len(verses) :
          LET old == verses[i].chatHistory
              new == result.verses[i].chatHistory
          IN IF verses[i].id = id
             THEN /\ Len(new) = Len(old) + 1
                  /\ SubSeq(new, 1, Len(old)) = old
                  /\ new[Len(new)].role = message.role
                  /\ new[Len(new)].content = message.content
             ELSE new = old

(***************************************************************************)
(* C16  chatHistory is append-only: over every store call, the history a   *)
(* verse had before is a prefix of the history it has afterwards, for      *)
(* every verse that is in the collection before and after; and             *)
(* addChatMessage(v, msg) extends the history of v by exactly one message  *)
(* at the end and leaves every other history as it was.                    *)
(***************************************************************************)
C16_AppendOnly ==
  /\ [](\A id \in VerseIds, message \in MessageInputs : AppendsOne(id, message))
  /\ [][\A i \in 1..Len(verses) : \A j \in 1..Len(verses') :
          verses[i].id = verses'[j].id
            => IsPrefix(verses[i].chatHistory, verses'[j].chatHistory)]_vars

\* A branch that got a message after its seed, next to a verse that got
\* none.
C16_Witness ==
  \E v \in Verses, w \in Verses :
    /\ v.id # w.id
    /\ Len(v.chatHistory) >= 2
    /\ v.chatHistory[1].role = "system"
    /\ v.chatHistory[2].role = "user"
    /\ w.chatHistory = <<>>

RECURSIVE Messages(_)
\* The number of messages in the histories of vs.
Messages(vs) == IF vs = <<>> THEN 0 ELSE Len(Head(vs).chatHistory) + Messages(Tail(vs))

(***************************************************************************)
(* C17  After N addChatMessage calls on a freshly created root verse its   *)
(* chatHistory has N messages (every id drawn went to the chat component   *)
(* of a verse, to a verse or to one message), the message ids are pairwise *)
(* distinct, and each message's timestamp is greater than that of the      *)
(* message before it.                                                      *)
(***************************************************************************)
C17_TimestampsIncrease ==
  /\ uuid = 2 * Len(verses) + Messages(verses)
  /\ \A v \in Verses :
       /\ \A i \in 1..Len(v.chatHistory), j \in 1..Len(v.chatHistory) :
            i # j => v.chatHistory[i].id # v.chatHistory[j].id
       /\ \A i \in 1..(Len(v.chatHistory) - 1) :
            v.chatHistory[i].timestamp < v.chatHistory[i + 1].timestamp

\* result is the store with the verse id replaced by changed and nothing
\* else touched.
OnlyVerseChanged(result, id, changed) ==
  /\ result.activeVerseId = activeVerseId
  /\ Len(result.verses) = Len(verses)
  /\ \A i \in 1..Len(verses) :
       result.verses[i] = IF verses[i].id = id THEN changed ELSE verses[i]

(***************************************************************************)
(* C18  updateVersePosition, updateVerseSize, updateVerseName,             *)
(* updateVerseModel and updateSystemPrompt on a verse of the collection    *)
(* replace the named field of that verse by the given value and change     *)
(* nothing else: no other field of the verse, no other verse, not          *)
(* activeVerseId.                                                          *)
(***************************************************************************)
C18_FieldUpdateFrame ==
  \A id \in VerseIds :
    LET v == VerseOf(id)
    IN /\ OnlyVerseChanged(updateVersePosition(id, MovedPosition), id,
                           [v EXCEPT !.position = MovedPosition])
       /\ OnlyVerseChanged(updateVerseSize(id, ResizedSize), id,
                           [v EXCEPT !.size = ResizedSize])
       /\ OnlyVerseChanged(updateVerseName(id, NameInput), id,
                           [v EXCEPT !.name = NameInput])
       /\ \A modelId \in ModelIdInputs :
            OnlyVerseChanged(updateVerseModel(id, modelId), id,
                             [v EXCEPT !.modelId = modelId])
       /\ OnlyVerseChanged(updateSystemPrompt(id, PromptInput), id,
                           [v EXCEPT !.systemPrompt = PromptInput])

\* A renamed verse that has a history and a branch, next to a verse that
\* kept its name, one of them active.
C18_Witness ==
  \E v \in Verses, w \in Verses :
    /\ v.name = NameInput
    /\ w.name # NameInput
    /\ v.chatHistory # <<>> \/ v.branches # <<>>
    /\ activeVerseId \in VerseIds

\* The zIndex of every component of every verse, by place.
ZIndexes(vs) ==
  [i \in 1..Len(vs) |-> [k \in 1..Len(vs[i].components) |-> vs[i].components[k].zIndex]]

(***************************************************************************)
(* C19  setActiveComponent(v, c) for a component c of v sets c.zIndex to   *)
(* the maximum zIndex of v's components before the call plus one, which    *)
(* puts c strictly above every other component of v, and changes the       *)
(* zIndex of no other component of v or of another verse; a component      *)
(* added by addComponent gets the maximum plus one as well.                *)
(***************************************************************************)
C19_BringToFront ==
  \A i \in 1..Len(verses) :
    LET v == verses[i]
        top == MaxZ(v.components)
    IN /\ \A k \in 1..Len(v.components) :
            LET result == setActiveComponent(v.id, v.components[k].id)
                after == ZIndexes(result.verses)
            IN /\ after = [ZIndexes(verses) EXCEPT ![i][k] = top + 1]
               /\ \A n \in 1..Len(v.components) : n # k => after[i][n] < after[i][k]
       /\ \A type \in ComponentTypes :
            LET result == addComponent(v.id, type, <<>>, <<>>)
                after == ZIndexes(result.verses)
            IN after = [ZIndexes(verses) EXCEPT ![i] = Append(@, top + 1)]

\* A verse whose first component was brought in front of one added later.
C19_Witness ==
  \E v \in Verses :
    /\ Len(v.components) >= 2
    /\ v.components[1].zIndex = MaxZ(v.components)
    /\ v.components[1].zIndex = v.components[2].zIndex + 1

\* The gateway call of c's submission has failed: the response is not ok, or
\* an exception is on its way to the catch block.
Failed(c) == ChatOf(c).phase \in {"readingError", "thrown"}

\* The verse's history ends with the user's message and one error entry, and
\* the window takes a new submission.
Recovered(c) ==
  LET chat == ChatOf(c)
      h == VerseOf(chat.verseId).chatHistory
      n == Len(h)
  IN /\ HasVerse(chat.verseId)
     /\ chat.phase = "idle"
     /\ ~chat.isLoading
     /\ Accepts(c, "hi")
     /\ n >= 2
     /\ h[n - 1].id = chat.userMessageId
     /\ h[n - 1].role = "user"
     /\ h[n].role = "assistant"
     /\ h[n].content = errorMessage.content

\* C20: a submission whose gateway call fails (network error, status that is
\* not ok, unreadable body) leads, as long as its verse is in the store, to a
\* state where exactly one assistant error entry follows the user's message,
\* isLoading is cleared and the window accepts a new submission; and a
\* submission that ended in the catch block has left that entry.
C20_FailureIsReported ==
  /\ \A c \in ChatIds :
       Failed(c) ~> (Recovered(c) \/ ~HasVerse(ChatOf(c).verseId))
  /\ [](\A c \in ChatIds :
          ChatOf(c).outcome = "failed" /\ HasVerse(ChatOf(c).verseId)
            => Recovered(c))

\* A 401 answer was reported in the history of a verse that holds an earlier
\* exchange.
C20_Witness ==
  \E c \in ChatIds :
    /\ ChatOf(c).outcome = "failed"
    /\ ChatOf(c).apiError # <<>>
    /\ Recovered(c)
    /\ Len(VerseOf(ChatOf(c).verseId).chatHistory) >= 4

\* The gateway call of window c is outstanding: fetch, or the reading of the
\* response's body, has not settled.
InFlight(c) == ChatOf(c).phase \in {"fetching", "readingError", "readingReply"}

\* C21: no two gateway calls are in flight for the same verse at the same
\* time, whatever the number of chat components of the verse.
C21_OneCallPerVerse ==
  \A c1 \in DOMAIN chats, c2 \in DOMAIN chats :
    InFlight(c1) /\ InFlight(c2) /\ ChatOf(c1).verseId = ChatOf(c2).verseId
      => c1 = c2

\* The step ends an extraction request of verse id that failed.
FailedExtraction(id) ==
  /\ HasVerse(id)
  /\ PanelOf(id).isAnalyzing \/ PanelOf(id).isGeneratingSystemMap
  /\ ~PanelOf(id)'.isAnalyzing
  /\ ~PanelOf(id)'.isGeneratingSystemMap
  /\ PanelOf(id)'.outcome = "failed"

\* C22: an extraction request that fails (the model's output does not parse,
\* the route answers with an error status, fetch rejects) leaves boardCards
\* and systemMapData of the verse as they were, and the caller sees an error.
C22_FailedExtractionKeepsCache ==
  [][\A id \in VerseIds :
       FailedExtraction(id) =>
         /\ VerseOf(id)'.boardCards = VerseOf(id).boardCards
         /\ VerseOf(id)'.systemMapData = VerseOf(id).systemMapData
         /\ PanelOf(id)'.alert # ""]_vars

\* The step is Create Branch in the picker of verse id.
BranchCreated(id) ==
  /\ HasVerse(id)
  /\ PanelOf(id).showModelPicker
  /\ ~PanelOf(id)'.showModelPicker
  /\ Len(verses') = Len(verses) + 1

\* C27: a branch made through the Branch button of the verse has no
\* branchSourceMessageId, whatever message-level dialogs the verse has had
\* before; only a request from a message's branch button gives one.
C27_VerseLevelBranchIsWhole ==
  [][\A id \in VerseIds :
       BranchCreated(id) /\ PanelOf(id).requested = "verse"
         => verses'[Len(verses')].branchSourceMessageId = None]_vars

RECURSIVE ChainUp(_, _)
\* The ancestors of the verse id that are in the collection, nearest first,
\* up to the first parentId that names no verse of the collection.
ChainUp(id, seen) ==
  IF id \in seen \/ ~HasVerse(id) \/ VerseOf(id).parentId = None
     \/ ~HasVerse(VerseOf(id).parentId)
  THEN <<>>
  ELSE <<VerseOf(VerseOf(id).parentId)>> \o ChainUp(VerseOf(id).parentId, seen \cup {id})

RECURSIVE HistoriesOldestFirst(_, _)
\* The histories of the ancestors in chain (nearest first) as the context
\* takes them, the farthest ancestor's first.
HistoriesOldestFirst(verse, chain) ==
  IF chain = <<>> THEN <<>>
  ELSE HistoriesOldestFirst(verse, Tail(chain))
         \o Map(FilteredHistory(verse, Head(chain)), Render)

\* C30: the context of a verse whose parentId names no verse of the
\* collection is empty; when the chain of a verse breaks higher up, the
\* context is made of the histories of the ancestors below the break, the
\* oldest ancestor first, and of nothing else.
C30_MissingAncestorTolerated ==
  \A v \in Verses :
    /\ (v.parentId # None /\ ~HasVerse(v.parentId)) => assembleContext(v.id) = <<>>
    /\ (HasParent(v) /\ ChainEnd(v.id, {}).kind = "missing") =>
         Context(v) = HistoriesOldestFirst(v, ChainUp(v.id, {}))

\* A branch with turns in its context whose parent's parent was removed, next
\* to a verse whose own parent was removed.
C30_Witness ==
  /\ \E v \in Verses :
       /\ HasParent(v)
       /\ ChainEnd(v.id, {}).kind = "missing"
       /\ ChainEnd(v.id, {}).at \in RemovedIds
       /\ Context(v) # <<>>
  /\ \E w \in Verses : w.parentId \in RemovedIds /\ assembleContext(w.id) = <<>>

\* C28: activeVerseId is null or the id of a verse of the collection;
\* removeVerse of the active verse makes it null, and removeVerse of another
\* verse leaves it as it is.
C28_ActiveVerseInCollection ==
  /\ activeVerseId = None \/ HasVerse(activeVerseId)
  /\ \A id \in VerseIds :
       removeVerse(id).activeVerseId =
         IF id = activeVerseId THEN None ELSE activeVerseId

\* Two verses were made and the active one of them was removed.
C28_Witness ==
  /\ steps = 3
  /\ removed # {}
  /\ verses # <<>>
  /\ activeVerseId = None


(***************************************************************************)
(* Definitions for the claim about the components of a verse.              *)
(***************************************************************************)
\* The verse without the component of the given id, all else as it was.
WithoutComponent(verse, componentId) ==
  [verse EXCEPT !.components =
     SelectSeq(verse.components, LAMBDA comp : comp.id # componentId)]

\* C29: every verse has at least one component; removeComponent on a verse
\* with exactly one component leaves the collection unchanged, and on a
\* verse with more it takes out the component of the given id and nothing
\* else.
C29_EveryVerseKeepsAComponent ==
  /\ \A i \in 1..Len(verses) : Len(verses[i].components) >= 1
  /\ \A id \in VerseIds :
       \A componentId \in ComponentIdInputs(id) :
         LET after == removeComponent(id, componentId)
         IN /\ after.activeVerseId = activeVerseId
            /\ Len(after.verses) = Len(verses)
            /\ \A i \in 1..Len(verses) :
                 after.verses[i] =
                   IF verses[i].id = id /\ Len(verses[i].components) > 1
                   THEN WithoutComponent(verses[i], componentId)
                   ELSE verses[i]

\* The second call was removeComponent on the only component of the only
\* verse: no id was drawn and the component is still there.
C29_Witness ==
  /\ steps = 2
  /\ uuid = 2
  /\ Len(verses) = 1
  /\ Len(verses[1].components) = 1


(***************************************************************************)
(* Definitions for the claim about removed verses.                         *)
(***************************************************************************)
\* The messages a chat window appends when its submission settles.
SettlingMessages == {errorMessage} \cup {assistantMessage(text) : text \in ReplyTexts}

\* C25: a verse that was removed is not in the collection again, whatever
\* is called afterwards; addChatMessage for it, as the late reply or error
\* of its chat window makes it, and branchVerse of it return the store as
\* it is.
C25_RemovedIsTerminal ==
  \A v \in RemovedIds :
    /\ ~HasVerse(v)
    /\ \A message \in MessageInputs \cup SettlingMessages :
         addChatMessage(v, message) = Unchanged
    /\ catchError(v) = Unchanged
    /\ \A modelId \in ModelIdInputs : branchVerse(v, modelId, None) = Unchanged

\* A submission settled after its verse was removed: the settling call drew
\* no id, the last id drawn is still the one of the user message.
C25_Witness ==
  \E c \in DOMAIN chats :
    /\ chats[c].verseId \in RemovedIds
    /\ chats[c].outcome # "none"
    /\ chats[c].userMessageId = uuid


(***************************************************************************)
(* Definitions for the claim about the order of two calls.                 *)
(***************************************************************************)
\* What a call writes: a field of its verse, or a field of its component.
\* addComponent and removeComponent write the components of the verse.
Written(call) ==
  CASE call.name = "updateVersePosition" -> <<"verse", call.verseId, "position">>
    [] call.name = "updateVerseSize" -> <<"verse", call.verseId, "size">>
    [] call.name = "updateVerseName" -> <<"verse", call.verseId, "name">>
    [] call.name = "updateVerseModel" -> <<"verse", call.verseId, "modelId">>
    [] call.name = "updateSystemPrompt" -> <<"verse", call.verseId, "systemPrompt">>
    [] call.name = "addChatMessage" -> <<"verse", call.verseId, "chatHistory">>
    [] call.name = "addComponent" -> <<"verse", call.verseId, "components">>
    [] call.name = "removeComponent" -> <<"verse", call.verseId, "components">>
    [] call.name = "updateComponentPosition" -> <<"component", call.componentId, "position">>
    [] call.name = "updateComponentSize" -> <<"component", call.componentId, "size">>
    [] call.name = "setActiveComponent" -> <<"component", call.componentId, "zIndex">>

\* The collection with the ids drawn by the two calls left out of account.
UpToFreshIds(vs) ==
  Map(vs, LAMBDA verse :
    [verse EXCEPT
       !.chatHistory = Map(@, LAMBDA msg :
                         IF msg.id > uuid THEN [msg EXCEPT !.id = None] ELSE msg),
       !.components = Map(@, LAMBDA comp :
                        IF comp.id > uuid THEN [comp EXCEPT !.id = None] ELSE comp)])

InOrder(first, second) ==
  UpToFreshIds(Then(Then([verses |-> verses, uuid |-> uuid], first), second).verses)

\* C24: two calls that do not write the same field of the same verse or
\* component give the same collection in either order, up to the ids drawn.
C24_CallsCommute ==
  \A first \in Calls, second \in Calls :
    Written(first) # Written(second) => InOrder(first, second) = InOrder(second, first)


(***************************************************************************)
(* Definitions for the claims about persistence.                           *)
(***************************************************************************)
\* The step is the end of a load of a document that holds what a save of
\* the collection in memory writes, and the load puts the document's verses
\* in memory.
Reloads(task) ==
  /\ task.kind = "load"
  /\ task \notin tasks'
  /\ task.canvasId \in DOMAIN docs
  /\ docs[task.canvasId].verses = sanitizeForFirestore(verses)
  /\ docs[task.canvasId].activeVerseId = activeVerseId
  /\ verses' = docs[task.canvasId].verses

\* C23: a load of what a save of the collection in memory wrote leaves the
\* collection as it was: the same verses in the same order with the same
\* fields, the data of the components present or absent as before.
C23_RoundTrip ==
  [][\A task \in tasks :
       Reloads(task) => verses' = verses /\ activeVerseId' = activeVerseId]_vars

\* C26: when no call is suspended, canvasId names the canvas whose
\* collection is in memory; and every document holds a collection of its
\* own canvas.
C26_CanvasIdNamesTheCollection ==
  /\ tasks = {} => sync.canvasId = held
  /\ \A id \in DOMAIN docs : docs[id].of = id

====
